---- MODULE Spec2Model ----
(***************************************************************************)
(* Host-side protocol engine of the CH347 bridge (package ch347): the     *)
(* SPI, I2C and GPIO codecs of type IO, which share the mutex IO.mu and    *)
(* the transport IO.Dev.                                                   *)
(*                                                                         *)
(* A thread executes one codec call.  Its steps are cut at the lock and    *)
(* at every transport call (Dev.Write, Dev.Read); the code between two     *)
(* transport calls only touches the call's own locals and is part of the   *)
(* step that follows it.  Every transport call may fail, and every reply   *)
(* of the device is an input.                                              *)
(***************************************************************************)
EXTENDS Integers, Sequences, FiniteSets, TLC

VARIABLES
    mu,     \* IO.mu: 0 when free, else the thread that holds it
    pc,     \* pc[t]: the position of thread t in its call
    loc,    \* loc[t]: the arguments and locals of the call of thread t
    res,    \* res[t]: the value the call returned ("none" while it runs)
    log,    \* log[t]: the transport calls of the call of thread t, in order
    bus,    \* the threads of all transport calls on IO.Dev, in order
    dev,    \* dev[pin]: the status of the pin in the device
    plan,   \* plan[t]: the calls thread t makes after the one it is in
    hist    \* hist[t]: the calls thread t has returned from, with their results

vars == <<mu, pc, loc, res, log, bus, dev, plan, hist>>

\* What the codecs other than GPIO leave alone.
env == <<dev, plan, hist>>

Threads == {1, 2}

(***************************************************************************)
(* Program constants.                                                      *)
(***************************************************************************)
maxPacketLen == 512
maxDataLen == 509
maxOpLen_oneMargin == 32768 - maxDataLen
maxOpLen == 32768 - maxDataLen * 2
CmdSPIWrite == 196
CmdSPISet == 192
AckOK == 1

Min(a, b) == IF a < b THEN a ELSE b

Byte(x) == x % 256

\* p[:n] of a slice whose backing array holds p
Take(p, n) == SubSeq(p, 1, n)

\* A length that counts the two bytes of the header too.
SetLen_whole(p) ==
    [p EXCEPT ![1] = Len(p) % 256, ![2] = (Len(p) \div 256) % 256]

\* The 2-byte little-endian length that write() stores in p[0], p[1].
SetLen(p) ==
    LET plen == Len(p) - 2
    IN  [p EXCEPT ![1] = plen % 256, ![2] = (plen \div 256) % 256]

(***************************************************************************)
(* Transport calls as they are logged: k is "w" (Dev.Write) or "r"         *)
(* (Dev.Read), f the frame written or the buffer as read, ok whether the   *)
(* call returned a nil error, first whether an SPI packet opens a write    *)
(* operation (it carries the 0xc4 header).                                 *)
(***************************************************************************)
Ev(k, f, ok, first) == [k |-> k, f |-> f, ok |-> ok, first |-> first]

\* A Dev.Read of I2C also tells whether the read-request acknowledgement was
\* pending (pend) and how many bytes the call then copied into r (got).
EvI2C(f, ok, pend, got) ==
    [k |-> "r", f |-> f, ok |-> ok, first |-> FALSE, pend |-> pend, got |-> got]

Writes(l) == SelectSeq(l, LAMBDA e : e.k = "w")
Reads(l) == SelectSeq(l, LAMBDA e : e.k = "r")

\* A return that gives the caller another error than the transport's.
Return_wrapped(t, e, l) ==
    /\ pc' = [pc EXCEPT ![t] = "done"]
    /\ res' = [res EXCEPT ![t] = IF e = "EIO" THEN "ErrInvalidResponse" ELSE e]
    /\ mu' = IF mu = t THEN 0 ELSE mu
    /\ log' = [log EXCEPT ![t] = l]

\* A return that leaves the lock held when the call fails.
Return_errorKeepsLock(t, e, l) ==
    /\ pc' = [pc EXCEPT ![t] = "done"]
    /\ res' = [res EXCEPT ![t] = e]
    /\ mu' = IF mu = t /\ e = "nil" THEN 0 ELSE mu
    /\ log' = [log EXCEPT ![t] = l]

\* A call returns e: the deferred c.mu.Unlock() runs.
Return(t, e, l) ==
    /\ pc' = [pc EXCEPT ![t] = "done"]
    /\ res' = [res EXCEPT ![t] = e]
    /\ mu' = IF mu = t THEN 0 ELSE mu
    /\ log' = [log EXCEPT ![t] = l]

(***************************************************************************)
(* SetSPI (spi.go).  loc[t] = [op, mode, clock, byteOrder, p].             *)
(***************************************************************************)
SPIModeBytes(mode) ==
    CASE mode = 0 -> <<0, 0, 0, 0>>
      [] mode = 1 -> <<0, 0, 1, 0>>
      [] mode = 2 -> <<2, 0, 0, 0>>
      [] mode = 3 -> <<2, 0, 1, 0>>
      [] OTHER -> <<>>

SetSPIFrame(mode, clock, byteOrder) ==
    <<29, 0>> \o <<CmdSPISet, 26, 0, 0, 0, 4, 1, 0, 0>> \o SPIModeBytes(mode)
    \o <<0, 2>> \o <<Byte(clock * 8)>> \o <<0>> \o <<Byte(byteOrder * 128)>>
    \o <<0, 7, 0>> \o <<0, 0>> \o <<255>> \o <<0>> \o <<0, 0, 0, 0>>

\* The test that makes SetSPI return ErrInvalidResponse (p is the reply).
SetSPIAckBad(p) == p[3] # CmdSPISet /\ p[4] # AckOK

SetSPILock(t) ==
    /\ UNCHANGED env
    /\ pc[t] = "SetSPI"
    /\ mu = 0
    /\ mu' = t
    /\ pc' = [pc EXCEPT ![t] = "setspi_write"]
    /\ UNCHANGED <<loc, res, log, bus>>

SetSPIWrite(t) ==
    /\ UNCHANGED env
    /\ pc[t] = "setspi_write"
    /\ \E ok \in BOOLEAN :
        LET s == loc[t]
            f == SetSPIFrame(s.mode, s.clock, s.byteOrder)
            l == Append(log[t], Ev("w", f, ok, FALSE))
        IN  /\ bus' = Append(bus, t)
            /\ loc' = [loc EXCEPT ![t] = [s EXCEPT !.p = f]]
            /\ IF ok
               THEN /\ pc' = [pc EXCEPT ![t] = "setspi_read"]
                    /\ log' = [log EXCEPT ![t] = l]
                    /\ UNCHANGED <<mu, res>>
               ELSE Return(t, "EIO", l)

SetSPIRead(t) ==
    /\ UNCHANGED env
    /\ pc[t] = "setspi_read"
    /\ \E ok \in BOOLEAN, b2 \in {CmdSPISet, 0}, b3 \in {AckOK, 0} :
        LET s == loc[t]
            reply == <<4, 0, b2, b3, 0, 0>>
            l == Append(log[t], Ev("r", reply, ok, FALSE))
        IN  /\ bus' = Append(bus, t)
            /\ loc' = [loc EXCEPT ![t] = [s EXCEPT !.p = reply]]
            /\ IF ~ok THEN Return(t, "EIO", l)
               ELSE IF SetSPIAckBad(reply) THEN Return(t, "ErrInvalidResponse", l)
               ELSE Return(t, "nil", l)

(***************************************************************************)
(* SPI (spi.go).  loc[t] holds the arguments (w as wlen bytes of the       *)
(* pattern wa, wb; rl = len(r)) and the locals p, sent, pos, plen, nlen,   *)
(* olen, dlen of the code, the argument finish of the running write() and  *)
(* the place ret it was called from: "a" the packet is full, "b" the       *)
(* operation is complete, "c" the loop has ended.  hdr tells whether p     *)
(* holds the header of a write operation.                                  *)
(***************************************************************************)
\* w[i], i counted from 0
WByte(s, i) == (s.wa + s.wb * i) % 256

\* w[from : from+n]
WSlice(s, from, n) == [i \in 1..n |-> WByte(s, from + i - 1)]

\* SPIFill with the bytes that remain as the length of the operation.
SPIFill_lengthUncapped(s) ==
    LET n0 == s.wlen - s.pos
        s1 == IF s.olen = 0
              THEN [s EXCEPT !.nlen = n0, !.hdr = TRUE,
                             !.p = s.p \o <<0, 0, CmdSPIWrite, Byte(n0), Byte(n0 \div 256)>>]
              ELSE s
        plen == Len(s1.p)
        d0 == s1.wlen - s1.pos
        d1 == IF plen + d0 > maxDataLen THEN maxDataLen - plen ELSE d0
        nl == s1.olen + d1
        d2 == IF nl > maxOpLen THEN maxOpLen - s1.olen ELSE d1
    IN  [s1 EXCEPT !.plen = plen, !.nlen = nl, !.dlen = d2,
                   !.p = IF d2 >= 0 THEN s1.p \o WSlice(s1, s1.pos, d2) ELSE s1.p]

\* SPIFill with maxDataLen bounding the data of a packet, not the packet.
SPIFill_dataCap(s) ==
    LET n0 == Min(s.wlen - s.pos, maxOpLen)
        s1 == IF s.olen = 0
              THEN [s EXCEPT !.nlen = n0, !.hdr = TRUE,
                             !.p = s.p \o <<0, 0, CmdSPIWrite, Byte(n0), Byte(n0 \div 256)>>]
              ELSE s
        plen == Len(s1.p)
        d0 == s1.wlen - s1.pos
        d1 == IF d0 > maxDataLen THEN maxDataLen ELSE d0
        nl == s1.olen + d1
        d2 == IF nl > maxOpLen THEN maxOpLen - s1.olen ELSE d1
    IN  [s1 EXCEPT !.plen = plen, !.nlen = nl, !.dlen = d2,
                   !.p = IF d2 >= 0 THEN s1.p \o WSlice(s1, s1.pos, d2) ELSE s1.p]

\* One pass of the loop body up to the append of the data.
SPIFill(s) ==
    LET n0 == Min(s.wlen - s.pos, maxOpLen)
        s1 == IF s.olen = 0
              THEN [s EXCEPT !.nlen = n0, !.hdr = TRUE,
                             !.p = s.p \o <<0, 0, CmdSPIWrite, Byte(n0), Byte(n0 \div 256)>>]
              ELSE s
        plen == Len(s1.p)
        d0 == s1.wlen - s1.pos
        d1 == IF plen + d0 > maxDataLen THEN maxDataLen - plen ELSE d0
        nl == s1.olen + d1
        d2 == IF nl > maxOpLen THEN maxOpLen - s1.olen ELSE d1
    IN  [s1 EXCEPT !.plen = plen, !.nlen = nl, !.dlen = d2,
                   !.p = IF d2 >= 0 THEN s1.p \o WSlice(s1, s1.pos, d2) ELSE s1.p]

\* The call write(finish) made from place ret.
SPICall(s, finish, ret) ==
    [s |-> [s EXCEPT !.finish = finish, !.ret = ret], pc |-> "spi_write", res |-> "none"]

\* "Finish a write operation and start a new one": the test of the loop body.
SPIOpDone(s) == s.olen = maxOpLen

\* pos += dlen; olen += dlen; and the end of the loop body.
SPIAdv(s) ==
    LET s1 == [s EXCEPT !.pos = s.pos + s.dlen, !.olen = s.olen + s.dlen]
    IN  IF SPIOpDone(s1) THEN SPICall(s1, TRUE, "b")
        ELSE [s |-> s1, pc |-> "spi_loop", res |-> "none"]

\* Where the code goes on when write() has returned nil.
SPICont(s) ==
    CASE s.ret = "a" -> SPIAdv(s)
      [] s.ret = "b" -> [s |-> [s EXCEPT !.p = <<>>, !.olen = 0, !.hdr = FALSE],
                         pc |-> "spi_loop", res |-> "none"]
      [] OTHER -> [s |-> s, pc |-> "done", res |-> "nil"]

\* "Nothing to write": the early return of write().
SPINothing(p) == Len(p) <= 2

\* The test that makes write() return ErrInvalidResponse (p is the reply).
SPIAckBad(p) == p[3] # CmdSPIWrite /\ p[4] # AckOK

\* SPIWritten with p = p[:0]: the next data overwrites the length prefix.
SPIWritten_reset0(s) == SPICont([s EXCEPT !.p = <<>>, !.hdr = FALSE])

\* write() has read the acknowledgements it reads: p = p[:2]; return nil.
SPIWritten(s) == SPICont([s EXCEPT !.p = Take(s.p, 2), !.hdr = FALSE])

\* SPIConfirmNow of a write() that confirms every packet as it is sent.
SPIConfirmNow_always(s) == TRUE

\* "if finish": write() reads the acknowledgements now.
SPIConfirmNow(s) == s.finish

\* SPIUnsupported without the test of len(r).
SPIUnsupported_never(s) == FALSE

\* "if len(r) != 0": reads are not supported.
SPIUnsupported(s) == s.rl # 0

SPIGo(t, x, l) ==
    /\ loc' = [loc EXCEPT ![t] = x.s]
    /\ IF x.pc = "done" THEN Return(t, x.res, l)
       ELSE /\ pc' = [pc EXCEPT ![t] = x.pc]
            /\ log' = [log EXCEPT ![t] = l]
            /\ UNCHANGED <<mu, res>>

SPILock(t) ==
    /\ UNCHANGED env
    /\ pc[t] = "SPI"
    /\ mu = 0
    /\ mu' = t
    /\ pc' = [pc EXCEPT ![t] = "spi_begin"]
    /\ UNCHANGED <<loc, res, log, bus>>

SPIBegin(t) ==
    /\ UNCHANGED env
    /\ pc[t] = "spi_begin"
    /\ UNCHANGED <<bus>>
    /\ IF SPIUnsupported(loc[t])
       THEN Return(t, "ErrUnsupported", log[t]) /\ UNCHANGED loc
       ELSE /\ pc' = [pc EXCEPT ![t] = "spi_loop"]
            /\ UNCHANGED <<mu, loc, res, log>>

SPILoop(t) ==
    /\ UNCHANGED env
    /\ pc[t] = "spi_loop"
    /\ UNCHANGED <<bus>>
    /\ LET s == loc[t]
           f == SPIFill(s)
       IN  IF s.pos < s.wlen
           THEN IF f.dlen < 0
                THEN loc' = [loc EXCEPT ![t] = f] /\ Return(t, "panic", log[t])
                ELSE IF Len(f.p) >= maxDataLen
                     THEN SPIGo(t, SPICall(f, FALSE, "a"), log[t])
                     ELSE SPIGo(t, SPIAdv(f), log[t])
           ELSE SPIGo(t, SPICall(s, TRUE, "c"), log[t])

SPIWrite(t) ==
    /\ UNCHANGED env
    /\ pc[t] = "spi_write"
    /\ LET s == loc[t]
       IN  IF SPINothing(s.p)
           THEN SPIGo(t, SPICont(s), log[t]) /\ UNCHANGED bus
           ELSE \E ok \in BOOLEAN :
                LET f == SetLen(s.p)
                    l == Append(log[t], Ev("w", f, ok, s.hdr))
                    s1 == [s EXCEPT !.p = f, !.sent = s.sent + 1]
                IN  /\ bus' = Append(bus, t)
                    /\ IF ~ok
                       THEN loc' = [loc EXCEPT ![t] = [s EXCEPT !.p = f]]
                            /\ Return(t, "EIO", l)
                       ELSE IF SPIConfirmNow(s1)
                            THEN SPIGo(t, [s |-> s1, pc |-> "spi_drain", res |-> "none"], l)
                            ELSE SPIGo(t, SPIWritten(s1), l)

\* The replies of the device to a packet, as <<p[2], p[3]>>: the first
\* SPIOddReads acknowledgements of a call are any of the four, but at most
\* one of a call differs from <<0xc4, 0x01>>.
SPIOddReads == 2
SPIGoodAck(f) == f[3] = CmdSPIWrite /\ f[4] = AckOK
SPIReplies(l) ==
    IF /\ Len(Reads(l)) < SPIOddReads
       /\ \A i \in 1..Len(l) : l[i].k = "r" => SPIGoodAck(l[i].f)
    THEN {CmdSPIWrite, 0} \X {AckOK, 0}
    ELSE {<<CmdSPIWrite, AckOK>>}

SPIDrain(t) ==
    /\ UNCHANGED env
    /\ pc[t] = "spi_drain"
    /\ \E ok \in BOOLEAN, a \in SPIReplies(log[t]) :
        LET s == loc[t]
            reply == <<3, 0, a[1], a[2], 0>>
            l == Append(log[t], Ev("r", reply, ok, FALSE))
            s1 == [s EXCEPT !.p = reply, !.sent = s.sent - 1]
        IN  /\ bus' = Append(bus, t)
            /\ IF ~ok
               THEN loc' = [loc EXCEPT ![t] = [s EXCEPT !.p = reply]]
                    /\ Return(t, "EIO", l)
               ELSE IF SPIAckBad(reply)
                    THEN loc' = [loc EXCEPT ![t] = [s EXCEPT !.p = reply]]
                         /\ Return(t, "ErrInvalidResponse", l)
                    ELSE IF s1.sent > 0
                         THEN SPIGo(t, [s |-> s1, pc |-> "spi_drain", res |-> "none"], l)
                         ELSE SPIGo(t, SPIWritten(s1), l)

(***************************************************************************)
(* SetCS, SetCS1 and setCS (spi.go).  loc[t] = [op, cs, enable].           *)
(***************************************************************************)
CmdSPICS == 193

\* pos of setCS, as a place of the sequence.
CSPos(cs) == 5 + 5 * cs + 1

\* A frame that asserts the line whatever enable is.
SetCSFrame_alwaysAssert(cs, enable) ==
    [i \in 1..15 |->
        IF i <= 5 THEN <<13, 0, CmdSPICS, 10, 0>>[i]
        ELSE IF i = CSPos(cs) THEN 128
        ELSE 0]

\* p of setCS when it is written.
SetCSFrame(cs, enable) ==
    [i \in 1..15 |->
        IF i <= 5 THEN <<13, 0, CmdSPICS, 10, 0>>[i]
        ELSE IF i = CSPos(cs) THEN (IF enable THEN 128 ELSE 192)
        ELSE 0]

SetCSLock(t) ==
    /\ UNCHANGED env
    /\ pc[t] = "SetCS"
    /\ mu = 0
    /\ mu' = t
    /\ pc' = [pc EXCEPT ![t] = "setcs_write"]
    /\ UNCHANGED <<loc, res, log, bus>>

\* A setCS that reads an acknowledgement after a write that succeeded.
SetCSRet_thenRead(ok, l) ==
    IF ok THEN Append(l, Ev("r", <<>>, TRUE, FALSE)) ELSE l

\* The transport calls of setCS when it returns: the write is the last.
SetCSRet(ok, l) == l

SetCSWrite(t) ==
    /\ UNCHANGED env
    /\ pc[t] = "setcs_write"
    /\ \E ok \in BOOLEAN :
        /\ bus' = Append(bus, t)
        /\ UNCHANGED loc
        /\ Return(t, IF ok THEN "nil" ELSE "EIO",
                  SetCSRet(ok, Append(log[t],
                      Ev("w", SetCSFrame(loc[t].cs, loc[t].enable), ok, FALSE))))

\* setCS(cs, enable).
SetCSCallOf(cs, enable) == [op |-> "SetCS", cs |-> cs, enable |-> enable]

\* SetCS(enable) and SetCS1(enable).
SetCS(enable) == SetCSCallOf(0, enable)
SetCS1(enable) == SetCSCallOf(1, enable)

(***************************************************************************)
(* Bit operations on bytes.                                                *)
(***************************************************************************)
RECURSIVE BitOr(_, _)
BitOr(a, b) ==
    IF a = 0 THEN b
    ELSE IF b = 0 THEN a
    ELSE (IF a % 2 = 1 \/ b % 2 = 1 THEN 1 ELSE 0) + 2 * BitOr(a \div 2, b \div 2)

RECURSIVE BitAnd(_, _)
BitAnd(a, b) ==
    IF a = 0 \/ b = 0 THEN 0
    ELSE (IF a % 2 = 1 /\ b % 2 = 1 THEN 1 ELSE 0) + 2 * BitAnd(a \div 2, b \div 2)

(***************************************************************************)
(* SetI2C (i2c.go).  loc[t] = [op, mode].                                  *)
(***************************************************************************)
CmdI2CStream == 170
CmdI2CStart == 116
CmdI2CStop == 117
CmdI2CWrite == 128
CmdI2CRead == 192
maxLen == 63

SetI2CFrame(mode) == <<3, 0, CmdI2CStream, BitOr(96, Byte(mode)), 0>>

SetI2CLock(t) ==
    /\ UNCHANGED env
    /\ pc[t] = "SetI2C"
    /\ mu = 0
    /\ mu' = t
    /\ pc' = [pc EXCEPT ![t] = "seti2c_write"]
    /\ UNCHANGED <<loc, res, log, bus>>

SetI2CWrite(t) ==
    /\ UNCHANGED env
    /\ pc[t] = "seti2c_write"
    /\ \E ok \in BOOLEAN :
        /\ bus' = Append(bus, t)
        /\ UNCHANGED loc
        /\ Return(t, IF ok THEN "nil" ELSE "EIO",
                  Append(log[t], Ev("w", SetI2CFrame(loc[t].mode), ok, FALSE)))

(***************************************************************************)
(* I2C (i2c.go).  loc[t] holds the arguments (addr; w, of length wlen; r,  *)
(* of length rl), the locals p, toWrite, toRead, rpos,                     *)
(* hasRead, pos, d, dlen, rlen, maxRLen, send of the code, the argument    *)
(* elems of the running pack(), the place pret pack() was called from, the *)
(* place wret write() was called from, and the place at the code is at.    *)
(* The device's read data is the pattern ra, rb.                           *)
(***************************************************************************)
\* A first WRITE primitive that is not shortened for the address byte.
I2CWriteLen_full(s) == Min(s.wlen - s.pos, maxLen)

\* The bytes (address and data) a WRITE primitive starting at pos carries.
I2CWriteLen(s) ==
    LET d0 == Min(s.wlen - s.pos, maxLen)
    IN  IF s.pos = 0 /\ d0 = maxLen THEN d0 - 1 ELSE d0

\* I2CWritePart with the address written as it is, not shifted left.
I2CWritePart_rawAddr(s) ==
    LET n == I2CWriteLen(s)
        d1 == IF s.pos = 0 THEN s.d \o <<Byte(s.addr)>> ELSE s.d
        d2 == d1 \o SubSeq(s.w, s.pos + 1, s.pos + n)
        pos2 == s.pos + n
        dlen == IF pos2 = 0 THEN Len(d2) ELSE Len(d2) - 1
    IN  [s EXCEPT !.pos = pos2, !.dlen = dlen,
                  !.d = [d2 EXCEPT ![1] = BitOr(CmdI2CWrite, Byte(dlen))]]

\* One pass of the write loop up to its call of pack(d...).
I2CWritePart(s) ==
    LET n == I2CWriteLen(s)
        d1 == IF s.pos = 0 THEN s.d \o <<Byte(s.addr * 2)>> ELSE s.d
        d2 == d1 \o SubSeq(s.w, s.pos + 1, s.pos + n)
        pos2 == s.pos + n
        dlen == IF pos2 = 0 THEN Len(d2) ELSE Len(d2) - 1
    IN  [s EXCEPT !.pos = pos2, !.dlen = dlen,
                  !.d = [d2 EXCEPT ![1] = BitOr(CmdI2CWrite, Byte(dlen))]]

\* I2CReadPart whose first READ does not leave a byte to the final 0xc0.
I2CReadPart_noFinalByte(s) ==
    LET d0 == Min(s.rlen, maxLen)
        nlen == 2 + s.toWrite + s.toRead + d0
        over == nlen >= maxPacketLen
        dlen == IF over THEN d0 - (nlen - maxPacketLen) ELSE d0
        tr == IF over /\ s.hasRead THEN s.toRead - 1 ELSE s.toRead
    IN  [s EXCEPT !.dlen = dlen, !.send = over \/ s.send,
                  !.d = s.d \o <<BitOr(CmdI2CRead, Byte(dlen))>>,
                  !.maxRLen = 63, !.toRead = tr + dlen]

\* One pass of the read loop up to "if send".
I2CReadPart(s) ==
    LET d0 == Min(s.rlen, maxLen)
        nlen == 2 + s.toWrite + s.toRead + d0
        over == nlen >= maxPacketLen
        dlen == IF over THEN d0 - (nlen - maxPacketLen) ELSE d0
        tr == IF over /\ s.hasRead THEN s.toRead - 1 ELSE s.toRead
        d1 == IF s.maxRLen = 63
              THEN s.d \o <<BitOr(CmdI2CRead, Byte(dlen))>>
              ELSE IF dlen > 1
                   THEN s.d \o <<Byte(BitOr(CmdI2CRead, Byte(dlen)) - 1)>>
                   ELSE s.d
    IN  [s EXCEPT !.dlen = dlen, !.send = over \/ s.send, !.d = d1,
                  !.maxRLen = 63, !.toRead = tr + dlen]

\* I2CPackFull of a pack() that never writes the frame.
I2CPackFull_never(s) == FALSE

\* pack(): "if (len(p) + len(elems)) >= (maxPacketLen - 2)", the frame is
\* written first.
I2CPackFull(s) == Len(s.p) + Len(s.elems) >= maxPacketLen - 2

\* pack() from "if len(p) == 0" on.
I2CPackAppend(s) ==
    LET p1 == IF Len(s.p) = 0 THEN <<0, 0, CmdI2CStream>> ELSE s.p
    IN  [s EXCEPT !.p = p1 \o s.elems, !.at = s.pret]

\* I2CStopPart with a second START in the place of STOP.
I2CStopPart_start(s) == <<CmdI2CStart>>

\* What I2C packs last: pack(CmdI2CStop).
I2CStopPart(s) == <<CmdI2CStop>>

\* The code from place s.at up to the next Dev.Write of write() or to the
\* return of I2C: [s, pc, res].
RECURSIVE I2CRun(_)
I2CCallWrite(s, wret) ==
    LET p1 == Append(s.p, 0)
    IN  IF Len(p1) < 2
        THEN [s |-> [s EXCEPT !.p = p1], pc |-> "done", res |-> "panic"]
        ELSE [s |-> [s EXCEPT !.p = SetLen(p1), !.wret = wret],
              pc |-> "i2c_lock", res |-> "none"]

I2CCallPack(s, elems, pret) ==
    LET s1 == [s EXCEPT !.elems = elems, !.pret = pret]
    IN  IF I2CPackFull(s1) THEN I2CCallWrite(s1, "packed")
        ELSE I2CRun(I2CPackAppend(s1))

I2CRun(s) ==
    CASE s.at = "begin" ->
            IF s.wlen # 0 THEN I2CCallPack(s, <<CmdI2CStart>>, "w_init")
            ELSE I2CRun([s EXCEPT !.at = "read_begin"])
      [] s.at = "w_init" ->
            I2CRun([s EXCEPT !.pos = 0, !.d = <<CmdI2CWrite>>, !.at = "w_loop"])
      [] s.at = "w_loop" ->
            IF s.pos < s.wlen
            THEN LET s1 == I2CWritePart(s) IN I2CCallPack(s1, s1.d, "w_packed")
            ELSE I2CRun([s EXCEPT !.at = "read_begin"])
      [] s.at = "w_packed" ->
            I2CRun([s EXCEPT !.d = Take(s.d, 1), !.toWrite = s.toWrite + s.dlen,
                             !.at = "w_loop"])
      [] s.at = "read_begin" ->
            IF s.rl # 0
            THEN I2CRun([s EXCEPT
                    !.d = <<CmdI2CStart, BitOr(CmdI2CWrite, 1), BitOr(Byte(s.addr * 2), 1)>>,
                    !.hasRead = TRUE, !.maxRLen = 64, !.dlen = s.rl, !.rlen = s.rl,
                    !.send = FALSE, !.at = "r_loop"])
            ELSE I2CRun([s EXCEPT !.at = "stop"])
      [] s.at = "r_loop" ->
            IF s.rlen > 0
            THEN LET s1 == I2CReadPart(s)
                 IN  IF s1.send
                     THEN I2CCallPack([s1 EXCEPT !.send = FALSE], s1.d, "r_packed")
                     ELSE I2CRun([s1 EXCEPT !.rlen = s1.rlen - s1.dlen])
            ELSE LET s1 == [s EXCEPT !.toRead = IF s.hasRead THEN s.toRead ELSE s.toRead + 1,
                                     !.d = s.d \o <<CmdI2CRead>>]
                 IN  I2CCallPack(s1, s1.d, "stop")
      [] s.at = "r_packed" -> I2CCallWrite(s, "r_written")
      [] s.at = "r_written" ->
            I2CRun([s EXCEPT !.d = <<>>, !.rlen = s.rlen - s.dlen, !.at = "r_loop"])
      [] s.at = "stop" -> I2CCallPack(s, I2CStopPart(s), "final")
      [] s.at = "final" -> I2CCallWrite(s, "ret")
      [] s.at = "packed" -> I2CRun(I2CPackAppend(s))
      [] OTHER -> [s |-> s, pc |-> "done", res |-> "nil"]

\* write() returns nil: "p = p[:0]", and the code goes on at s.wret.
I2CWritten(s) == I2CRun([s EXCEPT !.p = <<>>, !.at = s.wret])

\* I2CConfirmLen without the test of hasRead.
I2CConfirmLen_always(s) ==
    IF s.toWrite + s.toRead > 0 THEN s.toWrite + s.toRead + 1 ELSE 0

\* The bytes write() expects in reply, after the 2-byte prefix: clen.
I2CConfirmLen(s) ==
    IF s.toWrite + s.toRead > 0
    THEN s.toWrite + s.toRead + (IF s.hasRead THEN 1 ELSE 0)
    ELSE 0

\* I2CWriteNak that accepts 0x01 only.
I2CWriteNak_not1(b) == b # 1

\* A write acknowledgement byte that makes write() return ErrI2CWrite.
I2CWriteNak(b) == b = 0

\* A read-request acknowledgement byte that makes write() return ErrI2CRead.
I2CReadNak(b) == b # 1

\* I2CConfirm that copies the read data to the start of r in every flush.
I2CConfirm_copyAtStart(s, p) ==
    LET acks == SubSeq(p, 3, 2 + s.toWrite)
        pos1 == 3 + (IF s.toWrite > 0 THEN s.toWrite ELSE 0)
        pos2 == IF s.hasRead THEN pos1 + 1 ELSE pos1
    IN  IF \E i \in 1..Len(acks) : I2CWriteNak(acks[i])
        THEN [s |-> [s EXCEPT !.p = p], pc |-> "done", res |-> "ErrI2CWrite"]
        ELSE IF s.toRead <= 0
        THEN I2CWritten([s EXCEPT !.toWrite = IF s.toWrite > 0 THEN 0 ELSE s.toWrite])
        ELSE IF s.hasRead /\ I2CReadNak(p[pos1])
        THEN [s |-> [s EXCEPT !.p = p, !.toWrite = 0, !.hasRead = FALSE],
              pc |-> "done", res |-> "ErrI2CRead"]
        ELSE IF s.rpos + s.toRead > s.rl
        THEN [s |-> [s EXCEPT !.p = p, !.toWrite = 0, !.hasRead = FALSE],
              pc |-> "done", res |-> "panic"]
        ELSE I2CWritten([s EXCEPT
                !.toWrite = 0, !.hasRead = FALSE,
                !.r = [i \in 1..s.rl |->
                        IF i <= s.toRead THEN p[pos2 + i - 1] ELSE s.r[i]],
                !.rpos = s.rpos + s.toRead, !.toRead = 0])

\* "Confirm I2C operation": what write() does with the reply p.
I2CConfirm(s, p) ==
    LET acks == SubSeq(p, 3, 2 + s.toWrite)
        pos1 == 3 + (IF s.toWrite > 0 THEN s.toWrite ELSE 0)
        pos2 == IF s.hasRead THEN pos1 + 1 ELSE pos1
    IN  IF \E i \in 1..Len(acks) : I2CWriteNak(acks[i])
        THEN [s |-> [s EXCEPT !.p = p], pc |-> "done", res |-> "ErrI2CWrite"]
        ELSE IF s.toRead <= 0
        THEN I2CWritten([s EXCEPT !.toWrite = IF s.toWrite > 0 THEN 0 ELSE s.toWrite])
        ELSE IF s.hasRead /\ I2CReadNak(p[pos1])
        THEN [s |-> [s EXCEPT !.p = p, !.toWrite = 0, !.hasRead = FALSE],
              pc |-> "done", res |-> "ErrI2CRead"]
        ELSE IF s.rpos + s.toRead > s.rl
        THEN [s |-> [s EXCEPT !.p = p, !.toWrite = 0, !.hasRead = FALSE],
              pc |-> "done", res |-> "panic"]
        ELSE I2CWritten([s EXCEPT
                !.toWrite = 0, !.hasRead = FALSE,
                !.r = [i \in 1..s.rl |->
                        IF i > s.rpos /\ i <= s.rpos + s.toRead
                        THEN p[pos2 + (i - s.rpos) - 1] ELSE s.r[i]],
                !.rpos = s.rpos + s.toRead, !.toRead = 0])

\* The replies of the device to a frame, of the length write() reads: write
\* acknowledgements that are all 0x01 or all 0xff, but for at most one 0x00
\* at the first or the last place; a read-request acknowledgement 0x01,
\* 0x00 or 0xff; read data of the pattern ra, rb.
I2CReplies(s) ==
    LET n == 2 + I2CConfirmLen(s)
        k == IF s.toWrite > 0 THEN s.toWrite ELSE 0
    IN  { [i \in 1..n |->
            IF i <= 2 THEN (IF i = 1 THEN Byte(n - 2) ELSE Byte((n - 2) \div 256))
            ELSE IF i <= 2 + k THEN (IF i - 2 = nak THEN 0 ELSE g)
            ELSE IF s.hasRead /\ i = 3 + k THEN rack
            ELSE (s.ra + s.rb * (s.rpos + i - 3 - k - (IF s.hasRead THEN 1 ELSE 0))) % 256]
          : nak \in {0, 1, k}, g \in (IF k > 0 THEN {1, 255} ELSE {1}),
            rack \in (IF s.hasRead THEN {1, 0, 255} ELSE {1}) }

I2CGo(t, x, l) ==
    /\ loc' = [loc EXCEPT ![t] = x.s]
    /\ log' = [log EXCEPT ![t] = l]
    /\ pc' = [pc EXCEPT ![t] = x.pc]
    /\ res' = [res EXCEPT ![t] = IF x.pc = "done" THEN x.res ELSE res[t]]

\* I2C up to its first call of write(): the lock is not held yet.
I2CBegin(t) ==
    /\ UNCHANGED env
    /\ pc[t] = "I2C"
    /\ I2CGo(t, I2CRun(loc[t]), log[t])
    /\ UNCHANGED <<mu, bus>>

\* write(): c.mu.Lock().
I2CLock(t) ==
    /\ UNCHANGED env
    /\ pc[t] = "i2c_lock"
    /\ mu = 0
    /\ mu' = t
    /\ pc' = [pc EXCEPT ![t] = "i2c_write"]
    /\ UNCHANGED <<loc, res, log, bus>>

\* I2CWrite that unlocks when c.Dev.Write has returned, before the read.
I2CWrite_unlocksBeforeRead(t) ==
    /\ UNCHANGED env
    /\ pc[t] = "i2c_write"
    /\ \E ok \in BOOLEAN :
        LET s == loc[t]
            l == Append(log[t], Ev("w", s.p, ok, FALSE))
            clen == I2CConfirmLen(s)
        IN  /\ bus' = Append(bus, t)
            /\ mu' = 0
            /\ IF ~ok
               THEN I2CGo(t, [s |-> s, pc |-> "done", res |-> "EIO"], l)
               ELSE IF clen = 0
               THEN I2CGo(t, I2CWritten(s), l)
               ELSE IF 2 + clen > maxPacketLen
               THEN I2CGo(t, [s |-> s, pc |-> "done", res |-> "panic"], l)
               ELSE I2CGo(t, [s |-> s, pc |-> "i2c_read", res |-> "none"], l)

\* write(): c.Dev.Write(p) and, with nothing to confirm, the return; the
\* deferred c.mu.Unlock() runs when write() returns.
I2CWrite(t) ==
    /\ UNCHANGED env
    /\ pc[t] = "i2c_write"
    /\ \E ok \in BOOLEAN :
        LET s == loc[t]
            l == Append(log[t], Ev("w", s.p, ok, FALSE))
            clen == I2CConfirmLen(s)
        IN  /\ bus' = Append(bus, t)
            /\ IF ~ok
               THEN I2CGo(t, [s |-> s, pc |-> "done", res |-> "EIO"], l) /\ mu' = 0
               ELSE IF clen = 0
               THEN I2CGo(t, I2CWritten(s), l) /\ mu' = 0
               ELSE IF 2 + clen > maxPacketLen
               THEN I2CGo(t, [s |-> s, pc |-> "done", res |-> "panic"], l) /\ mu' = 0
               ELSE I2CGo(t, [s |-> s, pc |-> "i2c_read", res |-> "none"], l)
                    /\ UNCHANGED mu

\* write(): c.Dev.Read(p), the confirmation and the return; replies is what
\* may be in p[:2+clen] when Dev.Read has returned.
I2CReadOf(t, replies) ==
    /\ UNCHANGED env
    /\ pc[t] = "i2c_read"
    /\ \E ok \in BOOLEAN, reply \in replies :
        LET s == loc[t]
            x == IF ok THEN I2CConfirm(s, reply)
                 ELSE [s |-> [s EXCEPT !.p = reply], pc |-> "done", res |-> "EIO"]
            l == Append(log[t], EvI2C(reply, ok, s.hasRead, x.s.rpos - s.rpos))
        IN  /\ bus' = Append(bus, t)
            /\ mu' = 0
            /\ I2CGo(t, x, l)

I2CRead(t) == I2CReadOf(t, I2CReplies(loc[t]))

SetI2CCallOf(mode) == [op |-> "SetI2C", mode |-> mode]

I2CCallOf(addr, w, rl, ra, rb) ==
    [op |-> "I2C", addr |-> addr, w |-> w, wlen |-> Len(w),
     rl |-> rl, r |-> [i \in 1..rl |-> 0], ra |-> ra, rb |-> rb,
     p |-> <<>>, toWrite |-> 0, toRead |-> 0, rpos |-> 0, hasRead |-> FALSE,
     pos |-> 0, d |-> <<>>, dlen |-> 0, rlen |-> 0, maxRLen |-> 0, send |-> FALSE,
     elems |-> <<>>, pret |-> "", wret |-> "", at |-> "begin"]

StepI2C(t) ==
    \/ SetI2CLock(t)
    \/ SetI2CWrite(t)
    \/ I2CBegin(t)
    \/ I2CLock(t)
    \/ I2CWrite(t)
    \/ I2CRead(t)

(***************************************************************************)
(* WritePin and ReadPin (uart.go).  loc[t] = [op, pin, output, level, p];  *)
(* ReadPin returns its level in loc[t].level.                              *)
(***************************************************************************)
GPIOHead0 == 11
GPIOHead2 == 204
PinOutHigh == 248
PinOutLow == 240
PinIn == 192
Bit7 == 128
Bit6 == 64

\* "pos := 5 + pin", as an index counted from 1.
PinPos(pin) == 5 + pin + 1

\* A frame whose pin bytes are 0x08.
GPIOFrame_pinsDisabled == <<GPIOHead0, 0, GPIOHead2, 8, 0, 8, 8, 8, 8, 8, 8, 8, 8>>

GPIOFrame == <<GPIOHead0, 0, GPIOHead2, 8, 0, 0, 0, 0, 0, 0, 0, 0, 0>>

\* WritePinFrame with the output byte of the high level for both levels.
WritePinFrame_levelIgnored(s) ==
    [GPIOFrame EXCEPT ![PinPos(s.pin)] = IF s.output THEN PinOutHigh ELSE PinIn]

WritePinFrame(s) ==
    [GPIOFrame EXCEPT ![PinPos(s.pin)] =
        IF s.output THEN (IF s.level THEN PinOutHigh ELSE PinOutLow) ELSE PinIn]

\* A check that rejects an echo only when both bytes are wrong.
GPIOHeadBad_both(p) == p[1] # GPIOHead0 /\ p[3] # GPIOHead2

\* "if p[0] != 0x0b || p[2] != 0xcc"
GPIOHeadBad(p) == p[1] # GPIOHead0 \/ p[3] # GPIOHead2

\* A WritePin that does not check the echo of a pin it made an input.
WritePinCheck_inputUnchecked(s, b) ==
    IF s.output
    THEN LET mask == BitOr(Bit7, IF s.level THEN Bit6 ELSE 0)
         IN  IF BitAnd(b, mask) = 0 THEN "ErrPinOutput" ELSE "nil"
    ELSE "nil"

\* "Confirm pin state": the error WritePin returns for the echoed byte b.
WritePinCheck(s, b) ==
    IF s.output
    THEN LET mask == BitOr(Bit7, IF s.level THEN Bit6 ELSE 0)
         IN  IF BitAnd(b, mask) = 0 THEN "ErrPinOutput" ELSE "nil"
    ELSE IF BitAnd(b, Bit7) # 0 THEN "ErrPinInput" ELSE "nil"

\* ReadPinLevel with the polarity of an output for an input too.
ReadPinLevel_noInversion(b) == BitAnd(b, Bit6) # 0

\* The level ReadPin returns for the echoed byte b.
ReadPinLevel(b) ==
    IF BitAnd(b, Bit7) # 0
    THEN BitAnd(b, Bit6) # 0
    ELSE ~(BitAnd(b, Bit6) # 0)

\* The echoes of the device: a good or a bad header, any of GPIOBytes as
\* the byte of the pin, and the other pins disabled or output-high.
GPIOBytes == {0, 8, 64, 72, 128, 136, 192, 200}
GPIOEchoes(pin) ==
    { [i \in 1..13 |->
        IF i = 1 THEN h[1] ELSE IF i = 3 THEN h[2]
        ELSE IF i = 4 THEN 8
        ELSE IF i = PinPos(pin) THEN b
        ELSE IF i > 5 THEN o ELSE 0]
      : h \in {<<GPIOHead0, GPIOHead2>>, <<0, GPIOHead2>>, <<GPIOHead0, 0>>},
        b \in GPIOBytes, o \in {8, 192} }

GPIOLock(t) ==
    /\ UNCHANGED env
    /\ pc[t] \in {"WritePin", "ReadPin"}
    /\ mu = 0
    /\ mu' = t
    /\ pc' = [pc EXCEPT ![t] = "gpio_write"]
    /\ UNCHANGED <<loc, res, log, bus>>

Pins == 0..7

\* The device applies the byte written for a pin: output high, output low
\* or input; 0x00, and any other byte, leaves the pin as it is.
DevApply(d, f) ==
    [pin \in Pins |->
        LET b == f[PinPos(pin)]
        IN  CASE b = PinOutHigh -> Bit7 + Bit6
              [] b = PinOutLow -> Bit7
              [] b = PinIn -> 0
              [] OTHER -> d[pin]]

\* The status the device echoes: the header, and for every pin bit 7 and
\* bit 6 of an output as they were set, and bit 6 of an input as the level
\* outside makes it (b for the pin asked for, o for the other inputs).
DevEchoes(d, pin) ==
    { [i \in 1..13 |->
        IF i <= 5 THEN GPIOFrame[i]
        ELSE IF d[i - 6] >= Bit7 THEN d[i - 6]
        ELSE IF i = PinPos(pin) THEN b ELSE o]
      : b \in {0, Bit6}, o \in {0, Bit6} }

\* A Dev.Write that fails may or may not have reached the device.
GPIOWrite(t) ==
    /\ pc[t] = "gpio_write"
    /\ UNCHANGED <<plan, hist>>
    /\ \E ok \in BOOLEAN, applied \in BOOLEAN :
        LET s == loc[t]
            f == IF s.op = "WritePin" THEN WritePinFrame(s) ELSE GPIOFrame
            l == Append(log[t], Ev("w", f, ok, FALSE))
        IN  /\ ok => applied
            /\ dev' = IF applied THEN DevApply(dev, f) ELSE dev
            /\ bus' = Append(bus, t)
            /\ loc' = [loc EXCEPT ![t] = [s EXCEPT !.p = f]]
            /\ IF ok
               THEN /\ pc' = [pc EXCEPT ![t] = "gpio_read"]
                    /\ log' = [log EXCEPT ![t] = l]
                    /\ UNCHANGED <<mu, res>>
               ELSE Return(t, "EIO", l)

\* c.Dev.Read(p) with the echo one of echoes, and the rest of the call.
GPIOReadOf(t, echoes) ==
    /\ pc[t] = "gpio_read"
    /\ UNCHANGED env
    /\ \E ok \in BOOLEAN, echo \in echoes :
        LET s == loc[t]
            l == Append(log[t], Ev("r", echo, ok, FALSE))
            b == echo[PinPos(s.pin)]
        IN  /\ bus' = Append(bus, t)
            /\ IF ~ok
               THEN loc' = [loc EXCEPT ![t] = [s EXCEPT !.p = echo]]
                    /\ Return(t, "EIO", l)
               ELSE IF GPIOHeadBad(echo)
               THEN loc' = [loc EXCEPT ![t] = [s EXCEPT !.p = echo]]
                    /\ Return(t, "ErrInvalidHeader", l)
               ELSE IF s.op = "WritePin"
               THEN loc' = [loc EXCEPT ![t] = [s EXCEPT !.p = echo]]
                    /\ Return(t, WritePinCheck(s, b), l)
               ELSE loc' = [loc EXCEPT ![t] = [s EXCEPT !.p = echo, !.level = ReadPinLevel(b)]]
                    /\ Return(t, "nil", l)

\* The echo is any of GPIOEchoes.
GPIORead(t) == GPIOReadOf(t, GPIOEchoes(loc[t].pin))

\* The echo is the status of the device.
GPIOReadDev(t) == GPIOReadOf(t, DevEchoes(dev, loc[t].pin))

WritePinCallOf(pin, output, level) ==
    [op |-> "WritePin", pin |-> pin, output |-> output, level |-> level, p |-> <<>>]

ReadPinCallOf(pin) ==
    [op |-> "ReadPin", pin |-> pin, output |-> FALSE, level |-> FALSE, p |-> <<>>]

StepGPIO(t) ==
    \/ GPIOLock(t)
    \/ GPIOWrite(t)
    \/ GPIORead(t)

(***************************************************************************)
(* UART (uart.go).  The codec has a Dev of its own and takes no lock.      *)
(* loc[t] = [op, b, n, pos, p]: b is the caller's buffer, n the count      *)
(* returned, pos and p the locals of Write.                                *)
(***************************************************************************)
\* "Maximum 510 bytes per reads" and per frame written.
UARTMaxData == 510

\* p of Set: the command, the baud rate, the stop bits, the parity, the data
\* bits and the timeout.
UARTSetFrame(s) ==
    <<203, 8, 0,
      s.baudRate % 256, (s.baudRate \div 256) % 256, (s.baudRate \div 65536) % 256,
      0,
      s.stop, s.parity, s.dataBits, 0>>

\* UART.Set: one c.Dev.SendFeatureReport, logged as "f".
UARTSet(t) ==
    /\ pc[t] = "UARTSet"
    /\ UNCHANGED <<bus, env, loc>>
    /\ \E ok \in BOOLEAN :
        Return(t, IF ok THEN "nil" ELSE "EIO",
               Append(log[t], Ev("f", UARTSetFrame(loc[t]), ok, FALSE)))

UARTSetCallOf(baudRate, dataBits, parity, stop) ==
    [op |-> "UARTSet", baudRate |-> baudRate, dataBits |-> dataBits,
     parity |-> parity, stop |-> stop]

\* plen of Read and of Write.
UARTPlen(b) == IF Len(b) > UARTMaxData THEN UARTMaxData ELSE Len(b)

\* p[0] and p[1] of a frame of Write.
UARTHeader(dlen) == <<dlen % 256, (dlen \div 256) % 256>>

\* n of Read, before it is capped.
UARTAnnounced(p) == p[2] * 256 + p[1]

\* copy(b[:n], p[2:]).
UARTCopy(b, n, p) ==
    [i \in 1..Len(b) |-> IF i <= n /\ i <= Len(p) - 2 THEN p[2 + i] ELSE b[i]]

UARTSmall == 2
UARTDelta == 1

\* The lengths a frame of the device announces to a caller whose buffer has
\* bl bytes.
UARTAnnounces(bl) ==
    {a \in {e + d : e \in {0, bl, UARTMaxData}, d \in (0 - UARTDelta)..UARTDelta} :
        a >= 0}
    \cup {65535}

\* What Dev.Read leaves in a p of len bytes: the header of a frame and the
\* payload the frame has, which is at most UARTMaxData bytes; the rest of p
\* stays as make() left it.
UARTFrames(bl, len) ==
    { [i \in 1..len |->
        IF i <= 2 THEN UARTHeader(ann)[i]
        ELSE IF i - 2 <= ann THEN (ra + 5 * i) % 256
        ELSE 0] : ann \in UARTAnnounces(bl), ra \in {1, 129} }

\* UART.Read: one c.Dev.Read and the copy into b.
UARTRead(t) ==
    /\ pc[t] = "UARTRead"
    /\ UNCHANGED <<bus, env>>
    /\ \E ok \in BOOLEAN, p \in UARTFrames(Len(loc[t].b), UARTPlen(loc[t].b) + 2) :
        LET s == loc[t]
            l == Append(log[t], Ev("r", p, ok, FALSE))
            n == Min(UARTAnnounced(p), Len(s.b))
        IN  IF ~ok
            THEN /\ loc' = [loc EXCEPT ![t] = [s EXCEPT !.n = 0, !.p = p]]
                 /\ Return(t, "EIO", l)
            ELSE /\ loc' = [loc EXCEPT ![t] =
                            [s EXCEPT !.n = n, !.p = p, !.b = UARTCopy(s.b, n, p)]]
                 /\ Return(t, "nil", l)

\* dlen of an iteration of Write.
UARTChunk(s) == Min(Len(s.b) - s.pos, UARTPlen(s.b))

\* p of Write when an iteration begins: make(plen+2) before the first.
UARTBuffer(s) ==
    IF s.pos = 0 THEN [i \in 1..(UARTPlen(s.b) + 2) |-> 0] ELSE s.p

\* A frame that keeps the length of p whatever the chunk.
UARTTrim_padded(p, dlen, plen) == p

\* "if dlen != plen { p = p[:2+dlen] }".
UARTTrim(p, dlen, plen) == IF dlen # plen THEN Take(p, 2 + dlen) ELSE p

\* The frame of an iteration of Write: the header, the chunk, trimmed.
UARTWriteFrame(s) ==
    LET p0 == UARTBuffer(s)
        dlen == UARTChunk(s)
        p1 == [i \in 1..Len(p0) |->
                IF i <= 2 THEN UARTHeader(dlen)[i]
                ELSE IF i - 2 <= dlen THEN s.b[s.pos + i - 2]
                ELSE p0[i]]
    IN  UARTTrim(p1, dlen, UARTPlen(s.b))

\* A Write that takes no notice of the error of c.Dev.Write.
UARTWriteFailed_never(ok) == FALSE

\* "if err != nil { return pos, err }".
UARTWriteFailed(ok) == ~ok

\* UART.Write: the test of the loop and one iteration, or the return.
UARTWrite(t) ==
    /\ pc[t] = "UARTWrite"
    /\ UNCHANGED <<bus, env>>
    /\ LET s == loc[t]
       IN  IF s.pos >= Len(s.b)
           THEN /\ loc' = [loc EXCEPT ![t] = [s EXCEPT !.n = s.pos]]
                /\ Return(t, "nil", log[t])
           ELSE \E ok \in BOOLEAN :
                LET f == UARTWriteFrame(s)
                    l == Append(log[t], Ev("w", f, ok, FALSE))
                IN  IF UARTWriteFailed(ok)
                    THEN /\ loc' = [loc EXCEPT ![t] = [s EXCEPT !.n = s.pos, !.p = f]]
                         /\ Return(t, "EIO", l)
                    ELSE /\ loc' = [loc EXCEPT ![t] =
                                    [s EXCEPT !.pos = s.pos + UARTChunk(s), !.p = f]]
                         /\ log' = [log EXCEPT ![t] = l]
                         /\ UNCHANGED <<mu, pc, res>>

UARTReadCallOf(b) == [op |-> "UARTRead", b |-> b, n |-> 0, pos |-> 0, p |-> <<>>]

UARTWriteCallOf(b) == [op |-> "UARTWrite", b |-> b, n |-> 0, pos |-> 0, p |-> <<>>]

(***************************************************************************)
(* Calls and their inputs.                                                 *)
(***************************************************************************)
Idle == [op |-> "none"]

SetSPICallOf(mode, clock, byteOrder) ==
    [op |-> "SetSPI", mode |-> mode, clock |-> clock, byteOrder |-> byteOrder, p |-> <<>>]

SPICallOf(wlen, wa, wb, rl) ==
    [op |-> "SPI", wlen |-> wlen, wa |-> wa, wb |-> wb, rl |-> rl,
     p |-> <<>>, hdr |-> FALSE, sent |-> 0, pos |-> 0, plen |-> 0, nlen |-> 0,
     olen |-> 0, dlen |-> 0, finish |-> FALSE, ret |-> "c"]

\* Lengths 0..SPISmall and the lengths within SPIDelta of a packet or
\* operation edge.
SPISmall == 2
SPIDelta == 1
SPIEdges == {maxDataLen - 5, maxDataLen, 2 * maxDataLen - 7, maxOpLen,
             maxOpLen + maxDataLen - 5}
SPILens == (0..SPISmall) \cup {e + d : e \in SPIEdges, d \in (0 - SPIDelta)..SPIDelta}
SPIPats == {<<0, 1>>, <<196, 3>>}

SPICalls ==
    {SPICallOf(n, pt[1], pt[2], 0) : n \in {m \in SPILens : m < maxOpLen - SPIDelta}, pt \in SPIPats}
    \cup {SPICallOf(n, 7, 1, 0) : n \in SPILens}
    \cup {SPICallOf(n, 0, 1, 1) : n \in (0..SPISmall) \cup {maxDataLen}}
    \cup {SetSPICallOf(m, c, b) : m \in 0..3, c \in {0, 7}, b \in 0..1}
    \cup {SetCS(e) : e \in BOOLEAN} \cup {SetCS1(e) : e \in BOOLEAN}

\* Thread 1 is about to make a call of calls1 and thread 2 one of calls2.
Start(calls1, calls2) ==
    /\ mu = 0
    /\ loc \in {[t \in Threads |-> IF t = 1 THEN a ELSE b] : a \in calls1, b \in calls2}
    /\ pc = [t \in Threads |-> IF loc[t].op = "none" THEN "done" ELSE loc[t].op]
    /\ res = [t \in Threads |-> "none"]
    /\ log = [t \in Threads |-> <<>>]
    /\ bus = <<>>
    /\ dev = [pin \in Pins |-> 0]
    /\ plan = [t \in Threads |-> <<>>]
    /\ hist = [t \in Threads |-> <<>>]

InitSPI == Start(SPICalls, {Idle})

StepSPI(t) ==
    \/ SetSPILock(t)
    \/ SetSPIWrite(t)
    \/ SetSPIRead(t)
    \/ SPILock(t)
    \/ SPIBegin(t)
    \/ SPILoop(t)
    \/ SPIWrite(t)
    \/ SPIDrain(t)
    \/ SetCSLock(t)
    \/ SetCSWrite(t)

NextSPI == \E t \in Threads : StepSPI(t)

SpecSPI == InitSPI /\ [][NextSPI]_vars

GPIOCalls ==
    {WritePinCallOf(pin, o, v) : pin \in Pins, o \in BOOLEAN, v \in BOOLEAN}
    \cup {ReadPinCallOf(pin) : pin \in Pins}

InitGPIO == Start(GPIOCalls, {Idle})

NextGPIO == \E t \in Threads : StepGPIO(t)

SpecGPIO == InitGPIO /\ [][NextGPIO]_vars

\* The caller's next call: thread t has returned from a call and makes the
\* call its plan says.
NextCall(t) ==
    /\ pc[t] = "done"
    /\ plan[t] # <<>>
    /\ hist' = [hist EXCEPT ![t] = Append(hist[t], [call |-> loc[t], res |-> res[t]])]
    /\ loc' = [loc EXCEPT ![t] = Head(plan[t])]
    /\ plan' = [plan EXCEPT ![t] = Tail(plan[t])]
    /\ pc' = [pc EXCEPT ![t] = Head(plan[t]).op]
    /\ res' = [res EXCEPT ![t] = "none"]
    /\ log' = [log EXCEPT ![t] = <<>>]
    /\ UNCHANGED <<mu, bus, dev>>

\* Thread 1 makes any GPIO call, then WritePin(pin, true, level), then
\* ReadPin(pin), on a device whose pins are all inputs, all outputs at the
\* low level or all outputs at the high level.
InitPins ==
    /\ mu = 0
    /\ \E first \in GPIOCalls, pin \in Pins, level \in BOOLEAN, d \in {0, Bit7, Bit7 + Bit6} :
        /\ loc = [t \in Threads |-> IF t = 1 THEN first ELSE Idle]
        /\ plan = [t \in Threads |->
                    IF t = 1 THEN <<WritePinCallOf(pin, TRUE, level), ReadPinCallOf(pin)>>
                    ELSE <<>>]
        /\ dev = [q \in Pins |-> d]
    /\ pc = [t \in Threads |-> IF loc[t].op = "none" THEN "done" ELSE loc[t].op]
    /\ res = [t \in Threads |-> "none"]
    /\ log = [t \in Threads |-> <<>>]
    /\ bus = <<>>
    /\ hist = [t \in Threads |-> <<>>]

NextPins == \E t \in Threads : GPIOLock(t) \/ GPIOWrite(t) \/ GPIOReadDev(t) \/ NextCall(t)

SpecPins == InitPins /\ [][NextPins]_vars

\* The lengths of the buffers given to UART: the small ones and those about
\* one, two and three frames.
UARTLens ==
    (0..UARTSmall)
    \cup {k * UARTMaxData + d : k \in 1..3, d \in (0 - UARTDelta)..UARTDelta}

\* A buffer of n bytes, none of them 0.
UARTBuf(n, a) == [i \in 1..n |-> 1 + ((a + 7 * i) % 255)]

UARTCalls ==
    {UARTReadCallOf(UARTBuf(n, a)) : n \in UARTLens, a \in {0, 100}}
    \cup {UARTWriteCallOf(UARTBuf(n, a)) : n \in UARTLens, a \in {0, 100}}
    \cup {UARTSetCallOf(r, d, y, s) :
            r \in {9600, 115200, 2147483647}, d \in {0, 3, 4}, y \in {0, 4}, s \in 0..2}

InitUART == Start(UARTCalls, {Idle})

NextUART == \E t \in Threads : UARTSet(t) \/ UARTRead(t) \/ UARTWrite(t)

SpecUART == InitUART /\ [][NextUART]_vars

(***************************************************************************)
(* What a call did, read off its log.                                      *)
(***************************************************************************)
Done(t, op) == pc[t] = "done" /\ loc[t].op = op

\* The data bytes an SPI packet carries: the frame without its length
\* prefix and, in the first packet of an operation, without the header.
SPIData(e) == SubSeq(e.f, IF e.first THEN 6 ELSE 3, Len(e.f))

\* The data bytes of the transport calls from..to of l, in send order.
RECURSIVE SPISent(_, _, _)
SPISent(l, from, to) ==
    IF from > to THEN <<>>
    ELSE IF from = to THEN (IF l[from].k = "w" THEN SPIData(l[from]) ELSE <<>>)
    ELSE LET mid == (from + to) \div 2
         IN  SPISent(l, from, mid) \o SPISent(l, mid + 1, to)

\* The packets written and not yet acknowledged after the first n transport
\* calls of l.
SPIPending(l, n) ==
    Cardinality({i \in 1..n : l[i].k = "w"}) - Cardinality({i \in 1..n : l[i].k = "r"})

\* The calls of l keep the confirmation batched: a packet that opens an
\* operation finds no packet pending, every read answers a pending packet,
\* and the packet that follows a read opens an operation.
SPIBatched(l) ==
    \A k \in 1..Len(l) :
        IF l[k].k = "w"
        THEN l[k].first => SPIPending(l, k - 1) = 0
        ELSE /\ SPIPending(l, k - 1) > 0
             /\ (k < Len(l) /\ l[k + 1].k = "w" => l[k + 1].first)

(***************************************************************************)
(* SPI claims.                                                             *)
(***************************************************************************)
\* C1: a successful SPI transfer has read as many acknowledgement frames
\* as it wrote packet frames.
C1_AcksEqualPackets ==
    \A t \in Threads :
        Done(t, "SPI") /\ res[t] = "nil" =>
            Len(Reads(log[t])) = Len(Writes(log[t]))

\* C2: the data bytes of the packets written so far are the first bytes of
\* w, in order, and all of w once the transfer has returned success.
C2_PayloadIsW ==
    \A t \in Threads :
        Done(t, "SPI") =>
            LET d == SPISent(log[t], 1, Len(log[t]))
            IN  /\ Len(d) <= loc[t].wlen
                /\ d = WSlice(loc[t], 0, Len(d))
                /\ (res[t] = "nil" => Len(d) = loc[t].wlen)

C2_Witness ==
    \E t \in Threads :
        /\ Done(t, "SPI") /\ res[t] = "nil"
        /\ loc[t].wlen > maxOpLen
        /\ SPISent(log[t], 1, Len(log[t])) = WSlice(loc[t], 0, loc[t].wlen)

\* C6: SetSPI returns success only if the reply has p[2] = 0xc0 and
\* p[3] = 0x01, and SPI only if every acknowledgement it read has
\* p[2] = 0xc4 and p[3] = 0x01.
C6_SuccessOnlyIfAckMatches ==
    \A t \in Threads :
        pc[t] = "done" /\ res[t] = "nil" =>
            \A i \in 1..Len(log[t]) :
                log[t][i].k = "r" =>
                    /\ (loc[t].op = "SetSPI" =>
                            log[t][i].f[3] = CmdSPISet /\ log[t][i].f[4] = AckOK)
                    /\ (loc[t].op = "SPI" => SPIGoodAck(log[t][i].f))

\* C7: in an SPI transfer no acknowledgement is read between two packets
\* of one operation, every acknowledgement read answers a packet sent
\* since the last drain, and the first packet of an operation is written
\* with no packet pending; a drain that ends a successful transfer leaves
\* no packet pending.
C7_BatchedConfirmation ==
    \A t \in Threads :
        Done(t, "SPI") =>
            LET l == log[t]
            IN  /\ SPIBatched(l)
                /\ (res[t] = "nil" /\ Len(l) > 0 /\ l[Len(l)].k = "r" =>
                        Len(Reads(l)) = Len(Writes(l)))

C7_Witness ==
    \E t \in Threads :
        /\ Done(t, "SPI")
        /\ \E k \in 2..Len(log[t]) :
            log[t][k].k = "w" /\ log[t][k].first /\ log[t][k - 1].k = "r"

C9_ReadUnsupported ==
    \A t \in Threads :
        loc[t].op = "SPI" /\ loc[t].rl # 0 =>
            /\ log[t] = <<>>
            /\ t \notin {bus[i] : i \in 1..Len(bus)}
            /\ (pc[t] = "done" => res[t] = "ErrUnsupported" /\ mu # t)
            /\ pc[t] \in {"SPI", "spi_begin", "done"}

C9_Witness ==
    \E t \in Threads :
        /\ Done(t, "SPI") /\ loc[t].rl # 0 /\ loc[t].wlen = maxDataLen
        /\ res[t] = "ErrUnsupported" /\ mu = 0

\* Lengths 0..I2CSmall and the lengths within I2CDelta of an edge: of the
\* first WRITE primitive, of the frame and of the response buffer.
I2CSmall == 3
I2CDelta == 1
I2CNear(edges) ==
    (0..I2CSmall) \cup {e + d : e \in edges, d \in (0 - I2CDelta)..I2CDelta}
I2CWLens == I2CNear({maxLen - 1, 7 * maxLen - 1, 7 * maxLen + 55, maxPacketLen - 9})
I2CRLens == I2CNear({13, maxLen, maxPacketLen - 2, 2 * maxPacketLen - 5})
I2CBuf(n) == [i \in 1..n |-> (172 + 3 * i) % 256]

I2CCalls ==
    {I2CCallOf(a, I2CBuf(wl), rl, 16, 1) : a \in {56, 215}, wl \in I2CWLens, rl \in I2CRLens}
    \cup {I2CCallOf(56, <<172, 51, 0>>, 0, 16, 1)}
    \cup {SetI2CCallOf(m) : m \in 0..3}

InitI2C == Start(I2CCalls, {Idle})

NextI2C == \E t \in Threads : StepI2C(t)

SpecI2C == InitI2C /\ [][NextI2C]_vars

\* Two threads call the same IO concurrently: transfers and transactions of
\* one and of two frames, and the single-frame calls.
SharedCalls ==
    {SPICallOf(1, 7, 1, 0), SPICallOf(maxDataLen, 7, 1, 0),
     SetSPICallOf(0, 0, 0), SetI2CCallOf(1), SetCS1(TRUE),
     I2CCallOf(56, <<172, 51, 0>>, 1, 16, 1),
     I2CCallOf(56, I2CBuf(maxPacketLen - 8), 0, 16, 1),
     WritePinCallOf(4, TRUE, TRUE), ReadPinCallOf(4)}

Init == Start(SharedCalls, SharedCalls)

Next == \E t \in Threads : StepSPI(t) \/ StepI2C(t) \/ StepGPIO(t)

Spec == Init /\ [][Next]_vars

\* Thread 1 makes one call of any codec: the SPI transfers of up to three
\* packets, the I2C transactions with w or r of at most I2CSmall bytes, and
\* every other call of SPICalls, I2CCalls, GPIOCalls and UARTCalls.
AllCalls ==
    {c \in SPICalls : c.op = "SPI" => c.wlen <= 3 * maxDataLen}
    \cup {c \in I2CCalls : c.op = "I2C" =>
            c.addr = 56 /\ (c.wlen <= I2CSmall \/ c.rl <= I2CSmall)}
    \cup GPIOCalls
    \cup UARTCalls

InitAll == Start(AllCalls, {Idle})

NextAll ==
    \E t \in Threads :
        \/ StepSPI(t)
        \/ StepI2C(t)
        \/ StepGPIO(t)
        \/ UARTSet(t) \/ UARTRead(t) \/ UARTWrite(t)

SpecAll == InitAll /\ [][NextAll]_vars

(***************************************************************************)
(* The I2C command stream of a frame, as i2c.go documents it: START, STOP, *)
(* WRITE and READ with the length in bits 5-0 (length 0 is one byte), the  *)
(* WRITE followed by its bytes, and 0x00 ends the packet.                  *)
(***************************************************************************)
Prim(k, n, b) == [k |-> k, n |-> n, b |-> b]

RECURSIVE I2CParse(_, _)
I2CParse(f, i) ==
    IF i > Len(f) THEN <<>>
    ELSE IF f[i] = CmdI2CStart THEN <<Prim("start", 0, <<>>)>> \o I2CParse(f, i + 1)
    ELSE IF f[i] = CmdI2CStop THEN <<Prim("stop", 0, <<>>)>> \o I2CParse(f, i + 1)
    ELSE IF f[i] >= CmdI2CRead
         THEN <<Prim("read", f[i] - CmdI2CRead, <<>>)>> \o I2CParse(f, i + 1)
    ELSE IF f[i] >= CmdI2CWrite
         THEN LET n == f[i] - CmdI2CWrite
                  m == IF n = 0 THEN 1 ELSE n
              IN  <<Prim("write", n, SubSeq(f, i + 1, Min(i + m, Len(f))))>>
                  \o I2CParse(f, i + 1 + m)
    ELSE <<Prim("end", 0, <<>>)>>

I2CPrims(f) == IF Len(f) >= 3 /\ f[3] = CmdI2CStream THEN I2CParse(f, 4) ELSE <<>>

\* The primitives of the frames among calls from..to of l, in send order.
RECURSIVE I2CPrimsOf(_, _, _)
I2CPrimsOf(l, from, to) ==
    IF from > to THEN <<>>
    ELSE (IF l[from].k = "w" THEN I2CPrims(l[from].f) ELSE <<>>)
         \o I2CPrimsOf(l, from + 1, to)

\* The read request: the 1-byte WRITE of the address with the R/W bit set
\* that follows a START.
IsReadRequest(ps, i) ==
    /\ ps[i].k = "write" /\ Len(ps[i].b) = 1 /\ ps[i].b[1] % 2 = 1
    /\ i > 1 /\ ps[i - 1].k = "start"

\* The WRITE primitives of ps other than the read request.
DataWrites(ps) ==
    {i \in 1..Len(ps) : ps[i].k = "write" /\ ~IsReadRequest(ps, i)}

RECURSIVE SumLen(_, _)
SumLen(ps, is) ==
    IF is = {} THEN 0
    ELSE LET i == CHOOSE j \in is : TRUE
         IN  Len(ps[i].b) + SumLen(ps, is \ {i})

\* The bytes the WRITE primitives of ps other than the read request carry.
DataWriteBytes(ps) == SumLen(ps, DataWrites(ps))

\* The response bytes of the first n transport calls of l: what the reads
\* got after the 2-byte prefix of each.
RECURSIVE I2CConsumed(_, _)
I2CConsumed(l, n) ==
    IF n = 0 THEN 0
    ELSE I2CConsumed(l, n - 1) + (IF l[n].k = "r" THEN Len(l[n].f) - 2 ELSE 0)

\* The last read among the first n transport calls of l, 0 if there is none.
RECURSIVE LastRead(_, _)
LastRead(l, n) ==
    IF n = 0 THEN 0 ELSE IF l[n].k = "r" THEN n ELSE LastRead(l, n - 1)

(***************************************************************************)
(* I2C claims.                                                             *)
(***************************************************************************)
\* C4 as stated: a successful transaction consumes one response byte per
\* WRITE primitive, one for the read request if R > 0, and R data bytes.
C4_Original ==
    \A t \in Threads :
        Done(t, "I2C") /\ res[t] = "nil" =>
            LET l == log[t]
                ps == I2CPrimsOf(l, 1, Len(l))
            IN  I2CConsumed(l, Len(l)) =
                    Cardinality(DataWrites(ps)) + (IF loc[t].rl > 0 THEN 1 ELSE 0) + loc[t].rl

\* C4 amended: a successful transaction consumes one response byte per byte
\* carried by its WRITE primitives (the address byte included), one for the
\* read request if R > 0, and R data bytes; each flush consumes one byte per
\* byte of the WRITE primitives written since the last read, one if the
\* read-request acknowledgement is pending, and the read data bytes it
\* delivers.
C4_ResponseBytes ==
    \A t \in Threads :
        Done(t, "I2C") /\ res[t] = "nil" =>
            LET l == log[t]
                ps == I2CPrimsOf(l, 1, Len(l))
            IN  /\ I2CConsumed(l, Len(l)) =
                    DataWriteBytes(ps) + (IF loc[t].rl > 0 THEN 1 ELSE 0) + loc[t].rl
                /\ \A j \in 1..Len(l) :
                    l[j].k = "r" =>
                        Len(l[j].f) - 2 =
                            DataWriteBytes(I2CPrimsOf(l, LastRead(l, j - 1) + 1, j))
                            + (IF l[j].pend THEN 1 ELSE 0) + l[j].got
                /\ DataWriteBytes(I2CPrimsOf(l, LastRead(l, Len(l)) + 1, Len(l))) = 0

C4_Witness ==
    \E t \in Threads :
        /\ Done(t, "I2C") /\ res[t] = "nil"
        /\ loc[t].wlen > maxPacketLen - 10 /\ loc[t].rl > maxPacketLen
        /\ Len(Reads(log[t])) >= 3
        /\ I2CConsumed(log[t], Len(log[t])) = loc[t].wlen + 1 + 1 + loc[t].rl

C5Call(s) == s.op = "I2C" /\ s.addr = 56 /\ s.w = <<172, 51, 0>> /\ s.rl = 0

C5Frame(l) ==
    /\ Len(Writes(l)) = 1
    /\ I2CPrims(Writes(l)[1].f) =
        <<Prim("start", 0, <<>>), Prim("write", 4, <<112, 172, 51, 0>>),
          Prim("stop", 0, <<>>), Prim("end", 0, <<>>)>>

\* C5 as stated: the transaction writes one frame START, WRITE(4 bytes:
\* 0x70 0xAC 0x33 0x00), STOP and consumes exactly 1 response byte.
C5_Original ==
    \A t \in Threads :
        pc[t] = "done" /\ res[t] = "nil" /\ C5Call(loc[t]) =>
            C5Frame(log[t]) /\ I2CConsumed(log[t], Len(log[t])) = 1

\* C5 amended: the transaction writes one frame START, WRITE(4 bytes: 0x70
\* 0xAC 0x33 0x00), STOP and consumes exactly 4 response bytes, one per
\* byte of the WRITE primitive.
C5_Scenario ==
    \A t \in Threads :
        pc[t] = "done" /\ res[t] = "nil" /\ C5Call(loc[t]) =>
            /\ C5Frame(log[t])
            /\ Len(Reads(log[t])) = 1
            /\ I2CConsumed(log[t], Len(log[t])) = 4

C5_Witness ==
    \E t \in Threads :
        /\ pc[t] = "done" /\ res[t] = "nil" /\ C5Call(loc[t])
        /\ Writes(log[t])[1].f = <<9, 0, 170, 116, 132, 112, 172, 51, 0, 117, 0>>

\* The write acknowledgements in the response that call j of l read: one
\* for each byte the WRITE primitives carry that were written since the
\* read before it.
I2CAcksAt(l, j) == DataWriteBytes(I2CPrimsOf(l, LastRead(l, j - 1) + 1, j))

\* The response of call j of l has a write acknowledgement 0x00.
I2CWriteNaked(l, j) == \E i \in 3..(2 + I2CAcksAt(l, j)) : l[j].f[i] = 0

\* The response of call j of l has a read-request acknowledgement, and it
\* is not 0x01.
I2CReadNaked(l, j) ==
    /\ l[j].pend
    /\ Len(l[j].f) >= 3 + I2CAcksAt(l, j)
    /\ l[j].f[3 + I2CAcksAt(l, j)] # 1

\* C13: a response with a write acknowledgement 0x00 ends the I2C call with
\* ErrI2CWrite; a response whose write acknowledgements are all nonzero and
\* whose read-request acknowledgement is not 0x01 ends it with ErrI2CRead;
\* no other response ends it with one of the two errors; and the failing
\* response is the last transport call of the call.
C13_NakAborts ==
    \A t \in Threads :
        loc[t].op = "I2C" =>
            LET l == log[t]
                last(j) == j = Len(l) /\ pc[t] = "done"
            IN  /\ \A j \in 1..Len(l) :
                    l[j].k = "r" /\ l[j].ok =>
                        IF I2CWriteNaked(l, j) THEN last(j) /\ res[t] = "ErrI2CWrite"
                        ELSE IF I2CReadNaked(l, j) THEN last(j) /\ res[t] = "ErrI2CRead"
                        ELSE ~(last(j) /\ res[t] \in {"ErrI2CWrite", "ErrI2CRead"})
                /\ (res[t] \in {"ErrI2CWrite", "ErrI2CRead"} =>
                        Len(l) > 0 /\ l[Len(l)].k = "r" /\ l[Len(l)].ok)

C13_Witness ==
    \E t \in Threads :
        /\ Done(t, "I2C") /\ res[t] = "ErrI2CRead"
        /\ Len(Reads(log[t])) = 2
        /\ I2CAcksAt(log[t], Len(log[t])) > 0
        /\ log[t][Len(log[t])].f[3] = 255
        /\ I2CReadNaked(log[t], Len(log[t]))

\* The READ primitives of ps.
I2CReadsOf(ps) == {i \in 1..Len(ps) : ps[i].k = "read"}

\* The bytes a READ primitive asks for: its length, and one byte for 0xc0.
ReadCount(pr) == IF pr.n = 0 THEN 1 ELSE pr.n

RECURSIVE SumReads(_, _)
SumReads(ps, is) ==
    IF is = {} THEN 0
    ELSE LET i == CHOOSE j \in is : TRUE
         IN  ReadCount(ps[i]) + SumReads(ps, is \ {i})

\* C14: in a successful I2C transaction with a non-empty r, the last READ
\* primitive is 0xc0 and only STOP follows it, every other READ primitive
\* has a length of 1..63, and the bytes all READ primitives ask for sum to
\* len(r).
C14_FinalSingleByteRead ==
    \A t \in Threads :
        Done(t, "I2C") /\ res[t] = "nil" /\ loc[t].rl > 0 =>
            LET ps == I2CPrimsOf(log[t], 1, Len(log[t]))
                rs == I2CReadsOf(ps)
            IN  /\ rs # {}
                /\ \A i \in rs :
                    IF \A j \in rs : j <= i
                    THEN /\ ps[i].n = 0
                         /\ \A j \in (i + 1)..Len(ps) : ps[j].k \in {"stop", "end"}
                         /\ \E j \in (i + 1)..Len(ps) : ps[j].k = "stop"
                    ELSE ps[i].n >= 1 /\ ps[i].n <= maxLen
                /\ SumReads(ps, rs) = loc[t].rl

C14_Witness ==
    \E t \in Threads :
        /\ Done(t, "I2C") /\ res[t] = "nil"
        /\ loc[t].rl > 2 * maxPacketLen - 5 /\ loc[t].wlen > 0
        /\ Len(Writes(log[t])) >= 3
        /\ Cardinality(I2CReadsOf(I2CPrimsOf(log[t], 1, Len(log[t])))) > 16

\* The bytes a primitive takes in a frame.
PrimSize(pr) == IF pr.k = "write" THEN 1 + Len(pr.b) ELSE 1

RECURSIVE SumSizes(_, _)
SumSizes(ps, n) == IF n = 0 THEN 0 ELSE SumSizes(ps, n - 1) + PrimSize(ps[n])

\* The frame f is the prefix, the stream command, whole primitives and the
\* 0x00 that ends it.
I2CWholeFrame(f) ==
    LET ps == I2CPrims(f)
    IN  /\ ps # <<>>
        /\ ps[Len(ps)].k = "end"
        /\ \A i \in 1..Len(ps) :
            ps[i].k = "write" => Len(ps[i].b) = (IF ps[i].n = 0 THEN 1 ELSE ps[i].n)
        /\ Len(f) = 3 + SumSizes(ps, Len(ps))

\* C15: every frame an I2C transaction writes is at most 512 bytes long and
\* consists of whole primitives, every response buffer it reads is at most
\* 512 bytes long, and no response buffer is asked for beyond the 512 bytes
\* of p.
C15_FrameCap ==
    \A t \in Threads :
        loc[t].op = "I2C" =>
            /\ \A j \in 1..Len(log[t]) :
                /\ Len(log[t][j].f) <= maxPacketLen
                /\ (log[t][j].k = "w" => I2CWholeFrame(log[t][j].f))
            /\ res[t] # "panic"

C15_Witness ==
    \E t \in Threads :
        /\ Done(t, "I2C") /\ res[t] = "nil"
        /\ \E j \in 1..Len(log[t]) : log[t][j].k = "w" /\ Len(log[t][j].f) = maxPacketLen - 2
        /\ \E j \in 1..Len(log[t]) : log[t][j].k = "r" /\ Len(log[t][j].f) = maxPacketLen

\* C16: a successful I2C transaction has written exactly one STOP, as the
\* last primitive of the last frame it wrote, and that frame is the last
\* transport write of the call, whether w, r, both or neither are empty.
C16_StopOnceLast ==
    \A t \in Threads :
        Done(t, "I2C") /\ res[t] = "nil" =>
            LET l == log[t]
                ps == I2CPrimsOf(l, 1, Len(l))
                ws == Writes(l)
                fs == I2CPrims(ws[Len(ws)].f)
            IN  /\ ws # <<>>
                /\ Cardinality({i \in 1..Len(ps) : ps[i].k = "stop"}) = 1
                /\ Len(fs) >= 2
                /\ fs[Len(fs) - 1].k = "stop" /\ fs[Len(fs)].k = "end"

C16_Witness ==
    \E t \in Threads :
        /\ Done(t, "I2C") /\ res[t] = "nil"
        /\ loc[t].wlen = 0 /\ loc[t].rl = 0
        /\ Len(log[t]) = 1
        /\ log[t][1].f = <<3, 0, CmdI2CStream, CmdI2CStop, 0>>

\* The read data bytes the first n transport calls of l copied into r.
RECURSIVE I2CGot(_, _)
I2CGot(l, n) ==
    IF n = 0 THEN 0
    ELSE I2CGot(l, n - 1) + (IF l[n].k = "r" THEN l[n].got ELSE 0)

\* Call j of l is a read whose response write() has confirmed.
I2CConfirmed(t, j) ==
    /\ log[t][j].k = "r"
    /\ j < Len(log[t]) \/ res[t] = "nil"

\* C17: in an I2C transaction every response read directly follows the
\* write of a frame; the read-request acknowledgement is taken from one
\* response only, the first that delivers read data; a confirmed response
\* is the acknowledgements of the pending writes, then that acknowledgement,
\* then read data, and the read data is in r at the place after the data of
\* the responses before.
C17_ResponseOrder ==
    \A t \in Threads :
        loc[t].op = "I2C" =>
            LET l == log[t]
            IN  \A j \in 1..Len(l) :
                    l[j].k = "r" =>
                        LET n == I2CAcksAt(l, j)
                            a == IF l[j].pend THEN 1 ELSE 0
                        IN  /\ j > 1 /\ l[j - 1].k = "w"
                            /\ (l[j].pend => I2CGot(l, j - 1) = 0)
                            /\ (l[j].got > 0 /\ ~l[j].pend => I2CGot(l, j - 1) > 0)
                            /\ (I2CConfirmed(t, j) =>
                                    /\ l[j].got = Len(l[j].f) - 2 - n - a
                                    /\ (l[j].pend => l[j].got > 0))
                            /\ \A i \in 1..l[j].got :
                                    loc[t].r[I2CGot(l, j - 1) + i] = l[j].f[2 + n + a + i]

C17_Witness ==
    \E t \in Threads :
        /\ Done(t, "I2C") /\ res[t] = "nil"
        /\ \E j1, j2, j3 \in 1..Len(log[t]) :
            /\ j1 < j2 /\ j2 < j3
            /\ log[t][j1].k = "r" /\ log[t][j2].k = "r" /\ log[t][j3].k = "r"
            /\ I2CAcksAt(log[t], j1) > 0 /\ log[t][j1].got = 0
            /\ log[t][j2].pend /\ log[t][j2].got > 0
            /\ ~log[t][j3].pend /\ log[t][j3].got > 0

\* The WRITE primitives among the first n of ps, in the order written: all
\* of them, or those other than the read request.
RECURSIVE I2CWritesIn(_, _, _)
I2CWritesIn(ps, n, all) ==
    IF n = 0 THEN <<>>
    ELSE I2CWritesIn(ps, n - 1, all)
         \o (IF ps[n].k = "write" /\ (all \/ ~IsReadRequest(ps, n)) THEN <<ps[n]>> ELSE <<>>)

\* The bytes the first n primitives of ws carry.
RECURSIVE I2CCarried(_, _)
I2CCarried(ws, n) == IF n = 0 THEN <<>> ELSE I2CCarried(ws, n - 1) \o ws[n].b

\* The WRITE primitives ws have encoded lengths of 1..63 that are the
\* numbers of bytes they carry, start with the address byte of s with the
\* R/W bit 0, and carry w after it.
I2CWritesCarry(ws, s) ==
    /\ ws # <<>>
    /\ \A i \in 1..Len(ws) : ws[i].n \in 1..63 /\ ws[i].n = Len(ws[i].b)
    /\ ws[1].b[1] = (2 * s.addr) % 256
    /\ Tail(I2CCarried(ws, Len(ws))) = s.w

\* C26 as the spec states it: in a successful I2C transaction with w not
\* empty, every WRITE primitive has an encoded length of 1..63 equal to the
\* bytes it carries, the first starts with the address shifted left with
\* the R/W bit 0, and the bytes all WRITE primitives carry after that
\* address byte are w.
C26_Original ==
    \A t \in Threads :
        Done(t, "I2C") /\ res[t] = "nil" /\ loc[t].wlen > 0 =>
            LET ps == I2CPrimsOf(log[t], 1, Len(log[t]))
            IN  I2CWritesCarry(I2CWritesIn(ps, Len(ps), TRUE), loc[t])

\* C26: in a successful I2C transaction with w not empty, every WRITE
\* primitive has an encoded length of 1..63 equal to the bytes it carries;
\* the WRITE primitives other than the read request start with the address
\* shifted left with the R/W bit 0 and carry w after that byte; with r not
\* empty there is one more WRITE primitive, the read request, which carries
\* the address shifted left with the R/W bit 1 and follows them.
C26_WritesCarryW ==
    \A t \in Threads :
        Done(t, "I2C") /\ res[t] = "nil" /\ loc[t].wlen > 0 =>
            LET ps == I2CPrimsOf(log[t], 1, Len(log[t]))
                all == I2CWritesIn(ps, Len(ps), TRUE)
                ws == I2CWritesIn(ps, Len(ps), FALSE)
            IN  /\ I2CWritesCarry(ws, loc[t])
                /\ \A i \in 1..Len(all) : all[i].n \in 1..63 /\ all[i].n = Len(all[i].b)
                /\ IF loc[t].rl = 0 THEN all = ws
                   ELSE all = Append(ws, Prim("write", 1, <<(2 * loc[t].addr + 1) % 256>>))

\* A transaction with an address above 127, a first WRITE of 63 bytes, more
\* WRITE primitives after it, and a read.
C26_Witness ==
    \E t \in Threads :
        /\ Done(t, "I2C") /\ res[t] = "nil"
        /\ loc[t].addr > 127 /\ loc[t].wlen > 2 * maxLen /\ loc[t].rl > 0
        /\ LET ps == I2CPrimsOf(log[t], 1, Len(log[t]))
           IN  I2CWritesIn(ps, Len(ps), FALSE)[1].n = maxLen

\* The data bytes in the packets among calls from..to of l.
RECURSIVE SPIDataLen(_, _, _)
SPIDataLen(l, from, to) ==
    IF from > to THEN 0
    ELSE IF from = to
         THEN (IF l[from].k = "w"
               THEN Len(l[from].f) - (IF l[from].first THEN 5 ELSE 2) ELSE 0)
         ELSE LET mid == (from + to) \div 2
              IN  SPIDataLen(l, from, mid) + SPIDataLen(l, mid + 1, to)

\* Call j of l is the first packet of an operation.
SPIOpens(l, j) == l[j].k = "w" /\ l[j].first

\* C29: the two bytes after 0xc4 in the first packet of every SPI operation
\* are, little-endian, the lesser of the bytes of w not yet sent when the
\* operation starts and maxOpLen; in a transfer that succeeds they are also
\* the number of data bytes in all the packets of the operation.
C29_OperationLength ==
    \A t \in Threads :
        loc[t].op = "SPI" =>
            LET l == log[t]
            IN  \A j \in 1..Len(l) :
                    SPIOpens(l, j) =>
                        LET field == l[j].f[5] * 256 + l[j].f[4]
                        IN  /\ l[j].f[3] = 196
                            /\ field = Min(loc[t].wlen - SPIDataLen(l, 1, j - 1), 31750)
                            /\ Done(t, "SPI") /\ res[t] = "nil" =>
                                \A k \in j..Len(l) :
                                    /\ k = Len(l) \/ SPIOpens(l, k + 1)
                                    /\ \A m \in (j + 1)..k : ~SPIOpens(l, m)
                                    => SPIDataLen(l, j, k) = field

\* A transfer of maxOpLen + 1 bytes: the second operation has the length 1.
C29_Witness ==
    \E t \in Threads :
        /\ Done(t, "SPI") /\ res[t] = "nil"
        /\ \E i, j \in 1..Len(log[t]) :
            /\ i < j /\ SPIOpens(log[t], i) /\ SPIOpens(log[t], j)
            /\ SubSeq(log[t][i].f, 3, 5) = <<196, 6, 124>>
            /\ SubSeq(log[t][j].f, 3, 5) = <<196, 1, 0>>

\* C28: between two drains of acknowledgements an SPI transfer writes at
\* most 63 packet frames, whatever the length of w, and every packet frame
\* is at most 509 bytes long.
C28_OperationSize ==
    \A t \in Threads :
        loc[t].op = "SPI" =>
            LET l == log[t]
            IN  /\ \A j \in 1..Len(l) : l[j].k = "w" => Len(l[j].f) <= 509
                /\ \A i \in 1..Len(l) :
                    i + 63 <= Len(l) => \E k \in i..(i + 63) : l[k].k = "r"

\* A transfer of more than one operation whose first 63 transport calls are
\* writes of packets of 509 bytes, the first of them with the header.
C28_Witness ==
    \E t \in Threads :
        /\ Done(t, "SPI") /\ res[t] = "nil"
        /\ loc[t].wlen > maxOpLen
        /\ Len(log[t]) > 63
        /\ \A k \in 1..63 : log[t][k].k = "w"
        /\ \A k \in 1..62 : Len(log[t][k].f) = 509
        /\ log[t][1].first /\ log[t][64].k = "r"

\* The response bytes the primitives ps make the device send: one
\* acknowledgement for every byte of a WRITE primitive, the read request
\* included, and the data bytes of every READ primitive.
I2CElicited(ps) ==
    SumLen(ps, {i \in 1..Len(ps) : ps[i].k = "write"}) + SumReads(ps, I2CReadsOf(ps))

\* C31: at every response read of an I2C transaction the response bytes
\* the host has asked for so far are those the primitives of the frames
\* written so far make the device send, and a transaction that succeeds has
\* asked for all of them.
C31_ExpectedIsElicited ==
    \A t \in Threads :
        loc[t].op = "I2C" =>
            LET l == log[t]
            IN  /\ \A j \in 1..Len(l) :
                    l[j].k = "r" => I2CConsumed(l, j) = I2CElicited(I2CPrimsOf(l, 1, j))
                /\ Done(t, "I2C") /\ res[t] = "nil" =>
                    I2CConsumed(l, Len(l)) = I2CElicited(I2CPrimsOf(l, 1, Len(l)))

(***************************************************************************)
(* An I2C device that answers each primitive as the protocol prescribes:   *)
(* the acknowledgement 0x01 for every byte of a WRITE primitive, the read  *)
(* request included, and for a READ primitive its data bytes, which are    *)
(* byte m of the device's data (ra + rb * m) % 256, m counted from 0 over  *)
(* the transaction.                                                        *)
(***************************************************************************)
RECURSIVE I2CAnswer(_, _, _, _)
I2CAnswer(ps, i, m, s) ==
    IF i > Len(ps) THEN <<>>
    ELSE IF ps[i].k = "write"
         THEN [j \in 1..Len(ps[i].b) |-> AckOK] \o I2CAnswer(ps, i + 1, m, s)
    ELSE IF ps[i].k = "read"
         THEN [j \in 1..ReadCount(ps[i]) |-> (s.ra + s.rb * (m + j - 1)) % 256]
              \o I2CAnswer(ps, i + 1, m + ReadCount(ps[i]), s)
    ELSE I2CAnswer(ps, i + 1, m, s)

\* The response of the device to the frame written last in l: the 2-byte
\* length and the answers to its primitives.
I2CDevResponse(l, s) ==
    LET before == I2CPrimsOf(l, 1, Len(l) - 1)
        body == I2CAnswer(I2CPrims(l[Len(l)].f), 1, SumReads(before, I2CReadsOf(before)), s)
    IN  <<Byte(Len(body)), Byte(Len(body) \div 256)>> \o body

\* p[:2+clen] after c.Dev.Read(p[:rlen]): the response, cut to the slice;
\* where the response is shorter than the slice the transport either has
\* left the bytes of the frame p held or has filled the slice with zeroes.
I2CDevReplies(t) ==
    LET s == loc[t]
        n == 2 + I2CConfirmLen(s)
        resp == I2CDevResponse(log[t], s)
    IN  { [i \in 1..n |->
            IF i <= Len(resp) THEN resp[i]
            ELSE IF keep /\ i <= Len(s.p) THEN s.p[i] ELSE 0]
          : keep \in BOOLEAN }

I2CReadDev(t) == I2CReadOf(t, I2CDevReplies(t))

\* w of n bytes whose byte i (from 1) is (a + 3 * i) % 256.
I2CBufFrom(a, n) == [i \in 1..n |-> (a + 3 * i) % 256]

\* The transactions of I2CCalls, and those whose w has 0x01 where the
\* acknowledgement of the read request is looked for.
I2CDevCalls ==
    {c \in I2CCalls : c.op = "I2C"}
    \cup {I2CCallOf(56, I2CBufFrom(79, wl), rl, 16, 1) :
            wl \in {7 * maxLen + 55 + d : d \in (0 - I2CDelta)..I2CDelta},
            rl \in 1..I2CSmall}

InitI2CDev == Start(I2CDevCalls, {Idle})

NextI2CDev ==
    \E t \in Threads : I2CBegin(t) \/ I2CLock(t) \/ I2CWrite(t) \/ I2CReadDev(t)

SpecI2CDev == InitI2CDev /\ [][NextI2CDev]_vars

\* C32: against the answering device no response read of an I2C
\* transaction copies beyond r or beyond the response, and a transaction
\* with a non-empty r that succeeds has copied len(r) bytes and byte i of r
\* is byte i of the device's data.
C32_ReadData ==
    \A t \in Threads :
        loc[t].op = "I2C" =>
            LET l == log[t]
                s == loc[t]
            IN  /\ \A j \in 1..Len(l) :
                        l[j].k = "r" =>
                            /\ I2CGot(l, j) <= s.rl
                            /\ 2 + I2CAcksAt(l, j) + (IF l[j].pend THEN 1 ELSE 0) + l[j].got
                                    <= Len(l[j].f)
                /\ Done(t, "I2C") /\ res[t] = "nil" /\ s.rl > 0 =>
                        /\ I2CGot(l, Len(l)) = s.rl
                        /\ \A i \in 1..s.rl : s.r[i] = (s.ra + s.rb * (i - 1)) % 256

(***************************************************************************)
(* Consecutive calls on one IO.  The device sends one response frame for   *)
(* an SPI configuration frame, for an SPI packet and for a GPIO frame, one *)
(* for an I2C frame whose primitives elicit a byte, and none for the       *)
(* chip-select frame and the I2C speed frame.                              *)
(***************************************************************************)
DevAnswers(c, f) ==
    \/ c.op \in {"SetSPI", "SPI", "WritePin", "ReadPin"}
    \/ c.op = "I2C" /\ I2CElicited(I2CPrims(f)) > 0

\* The responses the device has sent and the host has not read after the
\* first n transport calls l of the call c.
DevLeft(c, l, n) ==
    Cardinality({i \in 1..n : l[i].k = "w" /\ l[i].ok /\ DevAnswers(c, l[i].f)})
    - Cardinality({i \in 1..n : l[i].k = "r"})

\* The caller's call has returned and the caller makes the next call of
\* its plan; hist keeps the transport calls of the call that returned.
NextCallLog(t) ==
    /\ pc[t] = "done"
    /\ plan[t] # <<>>
    /\ hist' = [hist EXCEPT ![t] =
                  Append(hist[t], [call |-> loc[t], res |-> res[t], log |-> log[t]])]
    /\ loc' = [loc EXCEPT ![t] = Head(plan[t])]
    /\ plan' = [plan EXCEPT ![t] = Tail(plan[t])]
    /\ pc' = [pc EXCEPT ![t] = Head(plan[t]).op]
    /\ res' = [res EXCEPT ![t] = "none"]
    /\ log' = [log EXCEPT ![t] = <<>>]
    /\ UNCHANGED <<mu, bus, dev>>

\* A call of every operation of IO; the SPI transfers of one byte, of a
\* full first packet and of a byte more, the I2C transactions of one frame
\* and the one whose write phase fills the frame.
SeqCalls ==
    {SPICallOf(n, 7, 1, 0) : n \in {1, maxDataLen - 5, maxDataLen - 4}}
    \cup {SetSPICallOf(0, 0, 0), SetCS(TRUE), SetCS1(FALSE), SetI2CCallOf(1),
          I2CCallOf(56, <<172, 51, 0>>, 1, 16, 1),
          I2CCallOf(56, I2CBuf(7 * maxLen + 54), 1, 16, 1),
          WritePinCallOf(4, TRUE, TRUE), ReadPinCallOf(4)}

\* Thread 1 makes one call of SeqCalls and then another.
InitSeq ==
    /\ mu = 0
    /\ \E first \in SeqCalls, second \in SeqCalls :
        /\ loc = [t \in Threads |-> IF t = 1 THEN first ELSE Idle]
        /\ plan = [t \in Threads |-> IF t = 1 THEN <<second>> ELSE <<>>]
    /\ pc = [t \in Threads |-> IF loc[t].op = "none" THEN "done" ELSE loc[t].op]
    /\ res = [t \in Threads |-> "none"]
    /\ log = [t \in Threads |-> <<>>]
    /\ bus = <<>>
    /\ dev = [q \in Pins |-> 0]
    /\ hist = [t \in Threads |-> <<>>]

NextSeq ==
    \E t \in Threads : StepSPI(t) \/ StepI2C(t) \/ StepGPIO(t) \/ NextCallLog(t)

SpecSeq == InitSeq /\ [][NextSeq]_vars

\* C33: after calls that all succeeded the device has no response left
\* unread, and every transport read of the call that follows finds a
\* response to a frame that call has written.
C33_OwnResponses ==
    \A t \in Threads :
        (\A i \in 1..Len(hist[t]) : hist[t][i].res = "nil") =>
            /\ \A i \in 1..Len(hist[t]) :
                    DevLeft(hist[t][i].call, hist[t][i].log, Len(hist[t][i].log)) = 0
            /\ \A j \in 1..Len(log[t]) :
                    log[t][j].k = "r" => DevLeft(loc[t], log[t], j - 1) > 0
            /\ pc[t] = "done" /\ res[t] = "nil" => DevLeft(loc[t], log[t], Len(log[t])) = 0

(***************************************************************************)
(* Claims about every codec.                                               *)
(***************************************************************************)
\* C21: in every call of a codec the first transport call that returns an
\* error is the last transport call of the call, and the call returns that
\* error; so nothing is retried and no acknowledgement still pending is
\* read.
C21_FirstErrorEnds ==
    \A t \in Threads :
        \A j \in 1..Len(log[t]) :
            ~log[t][j].ok =>
                /\ j = Len(log[t])
                /\ pc[t] = "done"
                /\ res[t] = "EIO"

\* An SPI transfer ends with the error of its third write, or of its first
\* read, while packets await their acknowledgement.
C21_Witness ==
    \E t \in Threads :
        /\ Done(t, "SPI") /\ res[t] = "EIO"
        /\ Len(log[t]) >= 3
        /\ ~log[t][Len(log[t])].ok
        /\ SPIPending(log[t], Len(log[t]) - 1) >= 2

\* C22: every frame an SPI transfer, an I2C transaction or a UART Write
\* hands to the transport starts with two bytes that are, little-endian, the
\* number of bytes that follow them in the frame.
C22_HeaderCountsRest ==
    \A t \in Threads :
        loc[t].op \in {"SPI", "I2C", "UARTWrite"} =>
            \A j \in 1..Len(log[t]) :
                log[t][j].k = "w" =>
                    /\ Len(log[t][j].f) >= 2
                    /\ log[t][j].f[2] * 256 + log[t][j].f[1] = Len(log[t][j].f) - 2

\* An I2C transaction has written a frame of more than 256 bytes and one
\* of fewer.
C22_Witness ==
    \E t \in Threads :
        /\ Done(t, "I2C") /\ res[t] = "nil"
        /\ \E i, j \in 1..Len(log[t]) :
            /\ log[t][i].k = "w" /\ Len(log[t][i].f) > 256 /\ log[t][i].f[2] > 0
            /\ log[t][j].k = "w" /\ Len(log[t][j].f) < 256

\* C23: SetCS(enable) writes the 15 bytes 0d 00 c1 0a 00 and two slots of 5
\* bytes, with byte 5 being 0x80 for enable and 0xc0 otherwise and the slot
\* at 10 all zero; SetCS1(enable) writes the same with that value in byte 10
\* and the slot at 5 all zero.
C23_ChipSelectFrame ==
    \A t \in Threads :
        loc[t].op = "SetCS" /\ log[t] # <<>> =>
            LET f == log[t][1].f
                v == IF loc[t].enable THEN 128 ELSE 192
            IN  /\ log[t][1].k = "w"
                /\ Len(f) = 15
                /\ SubSeq(f, 1, 5) = <<13, 0, 193, 10, 0>>
                /\ loc[t] = SetCS(loc[t].enable) =>
                    /\ f[6] = v
                    /\ f[11] = 0
                    /\ SubSeq(f, 11, 15) = <<0, 0, 0, 0, 0>>
                /\ loc[t] = SetCS1(loc[t].enable) =>
                    /\ f[11] = v
                    /\ f[6] = 0
                    /\ SubSeq(f, 6, 10) = <<0, 0, 0, 0, 0>>
                /\ loc[t] \in {SetCS(loc[t].enable), SetCS1(loc[t].enable)}

C23_Witness ==
    \E t \in Threads :
        /\ Done(t, "SetCS") /\ res[t] = "nil"
        /\ loc[t] = SetCS1(FALSE)
        /\ log[t][1].f = <<13, 0, 193, 10, 0, 0, 0, 0, 0, 0, 192, 0, 0, 0, 0>>

\* C24: the calls that await no answer make one transport call and never
\* read: UART Set one feature report of 11 bytes and nothing on the data
\* path, SetI2C one write of 03 00 aa (0x60|mode) 00, SetCS and SetCS1 one
\* write.
C24_FireAndForget ==
    \A t \in Threads :
        /\ loc[t].op \in {"UARTSet", "SetI2C", "SetCS"} =>
            /\ Len(log[t]) <= 1
            /\ pc[t] = "done" => Len(log[t]) = 1
        /\ loc[t].op = "UARTSet" /\ log[t] # <<>> =>
            log[t][1].k = "f" /\ Len(log[t][1].f) = 11
        /\ loc[t].op = "SetI2C" /\ log[t] # <<>> =>
            /\ log[t][1].k = "w"
            /\ log[t][1].f = <<3, 0, 170, 96 + loc[t].mode, 0>>
        /\ loc[t].op = "SetCS" /\ log[t] # <<>> => log[t][1].k = "w"

C24_Witness ==
    \E t \in Threads :
        /\ Done(t, "UARTSet") /\ res[t] = "nil"
        /\ log[t] = <<Ev("f", <<203, 8, 0, 0, 194, 1, 0, 0, 0, 3, 0>>, TRUE, FALSE)>>

(***************************************************************************)
(* UART claims.                                                            *)
(***************************************************************************)
\* Read has returned n for the frame f: n is the lesser of the length f
\* announces and len(b), and when f announces more than len(b) the first
\* len(b) payload bytes of f are in b.
UARTReceived(s, f) ==
    /\ s.n = Min(UARTAnnounced(f), Len(s.b))
    /\ (UARTAnnounced(f) > Len(s.b) =>
            \A i \in 1..Len(s.b) : 2 + i <= Len(f) /\ s.b[i] = f[2 + i])

C18_WithinOneFrame ==
    \A t \in Threads :
        Done(t, "UARTRead") /\ res[t] = "nil" /\ Len(loc[t].b) <= UARTMaxData
            => UARTReceived(loc[t], log[t][1].f)

C18_WithinOneFrame_Witness ==
    \E t \in Threads :
        /\ Done(t, "UARTRead") /\ res[t] = "nil"
        /\ Len(loc[t].b) = UARTMaxData - 1
        /\ UARTAnnounced(log[t][1].f) = UARTMaxData

\* The payload of a frame written: what follows its two length bytes.
UARTPayload(f) == SubSeq(f, 3, Len(f))

\* The payload bytes in the first n frames of l.
RECURSIVE UARTSent(_, _)
UARTSent(l, n) == IF n = 0 THEN 0 ELSE UARTSent(l, n - 1) + Len(l[n].f) - 2

\* C19: a UART Write during which no transport call fails writes
\* ceil(len(b)/510) frames; each has at most 510 payload bytes and is 2 +
\* payload bytes long, its first two bytes being the payload length; the
\* payloads in the order written make up b; the count returned is len(b).
C19_SendChunks ==
    \A t \in Threads :
        Done(t, "UARTWrite") /\ res[t] = "nil" =>
            LET l == log[t]
                b == loc[t].b
            IN  /\ Len(l) = (Len(b) + UARTMaxData - 1) \div UARTMaxData
                /\ \A j \in 1..Len(l) :
                    /\ l[j].k = "w"
                    /\ Len(l[j].f) >= 2
                    /\ Len(UARTPayload(l[j].f)) <= UARTMaxData
                    /\ UARTAnnounced(l[j].f) = Len(UARTPayload(l[j].f))
                    /\ UARTSent(l, j) <= Len(b)
                    /\ UARTPayload(l[j].f) = SubSeq(b, UARTSent(l, j - 1) + 1, UARTSent(l, j))
                /\ UARTSent(l, Len(l)) = Len(b)
                /\ loc[t].n = Len(b)

C19_Witness ==
    \E t \in Threads :
        /\ Done(t, "UARTWrite") /\ res[t] = "nil"
        /\ Len(loc[t].b) = 2 * UARTMaxData + 1
        /\ Len(log[t]) = 3
        /\ Len(log[t][3].f) = 3

\* C20: when the Dev.Write of a chunk of UART Write fails, with k chunks
\* written before it, the call returns the error and the count 510*k, the
\* payload bytes of those k chunks, and writes no further frame.
C20_SendFailure ==
    \A t \in Threads :
        loc[t].op = "UARTWrite" =>
            \A j \in 1..Len(log[t]) :
                ~log[t][j].ok =>
                    /\ j = Len(log[t])
                    /\ pc[t] = "done"
                    /\ res[t] = "EIO"
                    /\ loc[t].n = UARTMaxData * (j - 1)
                    /\ loc[t].n = UARTSent(log[t], j - 1)

C20_Witness ==
    \E t \in Threads :
        /\ Done(t, "UARTWrite") /\ res[t] = "EIO"
        /\ Len(log[t]) = 3
        /\ ~log[t][3].ok
        /\ loc[t].n = 2 * UARTMaxData

\* C25: for each of the 8 pins the frame WritePin writes is 13 bytes, 0b 00
\* cc 08 00 and 8 pin bytes; the byte at 5 + pin is 0xf8 for output high,
\* 0xf0 for output low and 0xc0 for input, the 7 other pin bytes are 0x00;
\* the frame ReadPin writes has 8 pin bytes of 0x00.
C25_PinFrames ==
    \A t \in Threads :
        loc[t].op \in {"WritePin", "ReadPin"} /\ log[t] # <<>> =>
            LET f == log[t][1].f
                s == loc[t]
                v == IF s.op = "ReadPin" THEN 0
                     ELSE IF ~s.output THEN 192
                     ELSE IF s.level THEN 248 ELSE 240
            IN  /\ log[t][1].k = "w"
                /\ Len(f) = 13
                /\ SubSeq(f, 1, 5) = <<11, 0, 204, 8, 0>>
                /\ s.pin \in 0..7
                /\ \A i \in 0..7 : f[5 + i + 1] = (IF i = s.pin THEN v ELSE 0)

C25_Witness ==
    \E t \in Threads :
        /\ Done(t, "WritePin") /\ res[t] = "nil"
        /\ loc[t].pin = 7 /\ ~loc[t].output
        /\ log[t][1].f = <<11, 0, 204, 8, 0, 0, 0, 0, 0, 0, 0, 0, 192>>

(***************************************************************************)
(* GPIO claims.                                                            *)
(***************************************************************************)
\* The byte of the pin in the echo the call read.
EchoByte(t) == Reads(log[t])[1].f[PinPos(loc[t].pin)]

\* C10: WritePin(pin, output = true, level) returns success only if the
\* echoed byte of the pin has bit 7 set and bit 6 equal to level, and the
\* pin-state error for every other echoed byte.
C10_OutputVerified ==
    \A t \in Threads :
        /\ Done(t, "WritePin") /\ loc[t].output
        /\ res[t] \in {"nil", "ErrPinOutput"}
        => (res[t] = "nil" <=>
                /\ BitAnd(EchoByte(t), Bit7) # 0
                /\ (BitAnd(EchoByte(t), Bit6) # 0) = loc[t].level)

\* C12: ReadPin returns true for an echoed byte with bit 7 and bit 6 set,
\* false with bit 7 set and bit 6 clear, true with both clear and false with
\* bit 7 clear and bit 6 set, whatever the other bits of the byte and the
\* bytes of the other pins are.
C12_ReadPinDecodes ==
    \A t \in Threads :
        Done(t, "ReadPin") /\ res[t] = "nil" =>
            LET b7 == BitAnd(EchoByte(t), Bit7) # 0
                b6 == BitAnd(EchoByte(t), Bit6) # 0
            IN  /\ (b7 /\ b6 => loc[t].level)
                /\ (b7 /\ ~b6 => ~loc[t].level)
                /\ (~b7 /\ ~b6 => loc[t].level)
                /\ (~b7 /\ b6 => ~loc[t].level)

C12_Witness ==
    \E t \in Threads :
        /\ Done(t, "ReadPin") /\ res[t] = "nil" /\ loc[t].pin = 5
        /\ EchoByte(t) = Bit6 + 8
        /\ Reads(log[t])[1].f[PinPos(6)] = Bit7 + Bit6
        /\ ~loc[t].level

\* The call thread t returned from before the one it is in.
LastCall(t) == hist[t][Len(hist[t])]

\* C11: on a device that applies the written pin byte and echoes the pin
\* status, ReadPin(p) made after a successful WritePin(p, true, level)
\* returns level, for each of the 8 pins and whatever call came before.
C11_SetThenGet ==
    \A t \in Threads :
        /\ Done(t, "ReadPin") /\ res[t] = "nil" /\ hist[t] # <<>>
        /\ LastCall(t).call.op = "WritePin" /\ LastCall(t).res = "nil"
        /\ LastCall(t).call.pin = loc[t].pin /\ LastCall(t).call.output
        => loc[t].level = LastCall(t).call.level

C11_Witness ==
    \E t \in Threads :
        /\ Done(t, "ReadPin") /\ res[t] = "nil" /\ Len(hist[t]) = 2
        /\ hist[t][1].call = [WritePinCallOf(7, TRUE, TRUE) EXCEPT !.p = hist[t][1].call.p]
        /\ hist[t][1].res = "nil"
        /\ LastCall(t).call.op = "WritePin" /\ LastCall(t).res = "nil"
        /\ LastCall(t).call.pin = 7 /\ LastCall(t).call.output /\ ~LastCall(t).call.level
        /\ loc[t].pin = 7 /\ ~loc[t].level

\* C27: WritePin and ReadPin return the invalid-response error whenever
\* byte 0 of the echo read is not 0x0b or byte 2 is not 0xcc, whatever the
\* byte of the pin is, and ReadPin then returns the level false; both hold
\* the lock from before the write until after the read.
C27_EchoHeaderChecked ==
    \A t \in Threads :
        loc[t].op \in {"WritePin", "ReadPin"} =>
            /\ pc[t] \in {"gpio_write", "gpio_read"} => mu = t
            /\ Len(log[t]) <= 2
            /\ Len(log[t]) = 1 /\ pc[t] # "done" => pc[t] = "gpio_read"
            /\ Len(log[t]) = 2 /\ log[t][2].ok =>
                LET e == log[t][2].f
                IN  /\ log[t][1].k = "w" /\ log[t][2].k = "r"
                    /\ (e[1] # 11 \/ e[3] # 204) =>
                        /\ res[t] = "ErrInvalidHeader"
                        /\ loc[t].op = "ReadPin" => ~loc[t].level
                    /\ res[t] = "ErrInvalidHeader" => (e[1] # 11 \/ e[3] # 204)

\* WritePin(pin, true, true) has read an echo with a wrong byte 0 only and
\* a pin byte of 0x00.
C27_Witness ==
    \E t \in Threads :
        /\ Done(t, "WritePin") /\ res[t] = "ErrInvalidHeader"
        /\ loc[t].output /\ loc[t].level
        /\ log[t][2].f[1] # 11 /\ log[t][2].f[3] = 204
        /\ EchoByte(t) = 0

\* C30: WritePin(pin, output = false, level), having read an echo with a
\* good header, returns the input error when bit 7 of the echoed byte of the
\* pin is set and nil when it is clear, whatever bit 6 and level are.
C30_InputVerified ==
    \A t \in Threads :
        /\ Done(t, "WritePin") /\ ~loc[t].output
        /\ Len(log[t]) = 2 /\ log[t][2].ok
        /\ log[t][2].f[1] = 11 /\ log[t][2].f[3] = 204
        => res[t] = (IF (log[t][2].f[5 + loc[t].pin + 1] \div 128) % 2 = 1
                     THEN "ErrPinInput" ELSE "nil")

\* WritePin(pin, false, true) has returned nil for the echoed byte 0x40.
C30_Witness ==
    \E t \in Threads :
        /\ Done(t, "WritePin") /\ ~loc[t].output /\ loc[t].level
        /\ res[t] = "nil"
        /\ Len(log[t]) = 2 /\ EchoByte(t) = 64

(***************************************************************************)
(* Lock claims.                                                            *)
(***************************************************************************)
\* Two threads call the same IO concurrently, each one call whose exits are
\* the success, the transport error and: the response mismatch (SetSPI,
\* SPI, ReadPin), the NAK (I2C), the unsupported operation (SPI with a read
\* buffer); SetCS1 and SetI2C have the first two only.
FairCalls ==
    {SPICallOf(1, 7, 1, 0), SPICallOf(1, 7, 1, 1), SetSPICallOf(0, 0, 0),
     SetI2CCallOf(1), SetCS1(TRUE), I2CCallOf(56, <<172, 51, 0>>, 1, 16, 1),
     ReadPinCallOf(4)}

InitFair == Start(FairCalls, FairCalls)

\* The steps of thread t but the first of I2C, which takes no lock and
\* makes no transport call.
StepIO(t) ==
    \/ StepSPI(t)
    \/ StepGPIO(t)
    \/ SetI2CLock(t) \/ SetI2CWrite(t) \/ I2CLock(t) \/ I2CWrite(t) \/ I2CRead(t)

\* Every transport call returns and the scheduler runs every goroutine
\* that can take a step: a call that can go on does go on.  I2CBegin(t) can
\* be taken exactly at pc[t] = "I2C" and leaves that place, so its weak
\* fairness is that the thread is again and again not there.
SpecFair ==
    /\ InitFair /\ [][Next]_vars
    /\ \A t \in Threads : WF_vars(StepIO(t)) /\ []<>(pc[t] # "I2C")

\* The places of a call where it holds the lock, and where it waits for it.
LockedAt ==
    {"setspi_write", "setspi_read", "spi_begin", "spi_loop", "spi_write", "spi_drain",
     "setcs_write", "seti2c_write", "i2c_write", "i2c_read", "gpio_write", "gpio_read"}

WaitsAt == {"SetSPI", "SPI", "SetCS", "SetI2C", "i2c_lock", "WritePin", "ReadPin"}

\* C34: a call holds the lock exactly while it is between its Lock() and
\* its return, whatever it returns, so the lock is free when no call is
\* there; and every call that waits for the lock returns in the end.
C34_LockReleased ==
    /\ [](\A t \in Threads : mu = t <=> pc[t] \in LockedAt)
    /\ [](mu \in Threads \cup {0})
    /\ \A t \in Threads : pc[t] \in WaitsAt ~> pc[t] = "done"

\* A call has failed with a NAK while the other call waited for the lock,
\* and that call has returned since: the lock is free.
C34_Witness ==
    /\ Done(1, "I2C") /\ res[1] = "ErrI2CWrite"
    /\ Done(2, "SPI") /\ res[2] = "ErrUnsupported"
    /\ mu = 0
    /\ Len(bus) >= 2

\* The place in bus of the k-th transport call of thread t.
BusAt(t, k) ==
    CHOOSE i \in 1..Len(bus) :
        bus[i] = t /\ Cardinality({j \in 1..i : bus[j] = t}) = k

\* C35: an I2C transaction that has written a frame and has its response
\* to read holds the lock; the read of a response is the transport call
\* next to the write of its frame, with no call of another thread between;
\* and a step of one thread leaves the counters, the buffers and the frame
\* of every other thread as they were.
C35_FrameSection ==
    /\ [](\A t \in Threads :
            loc[t].op = "I2C" =>
                /\ pc[t] = "i2c_read" => mu = t
                /\ \A k \in 1..Len(log[t]) :
                        log[t][k].k = "r" =>
                            /\ k > 1 /\ log[t][k - 1].k = "w"
                            /\ BusAt(t, k) = BusAt(t, k - 1) + 1)
    /\ [][\A t, u \in Threads :
            t # u /\ (pc'[u] # pc[u] \/ log'[u] # log[u]) => loc'[t] = loc[t]]_vars

\* Thread 1 is in an I2C transaction and has read the response of a frame,
\* thread 2 has made a transport call after the first of thread 1 and before
\* the last.
C35_Witness ==
    /\ loc[1].op = "I2C"
    /\ \E k \in 1..Len(log[1]) : log[1][k].k = "r"
    /\ \E i, j, k \in 1..Len(bus) :
            i < j /\ j < k /\ bus[i] = 1 /\ bus[j] = 2 /\ bus[k] = 1

\* C3: no transport call of one call occurs between two transport calls of
\* another call.
C3_Serialized ==
    \A i, j, k \in 1..Len(bus) :
        i < j /\ j < k /\ bus[i] = bus[k] => bus[j] = bus[i]

====
